---------------------------- MODULE Spec2Model ----------------------------
(***************************************************************************)
(* nmos-rs: the resource graph (model/src/lib.rs), the registry candidate  *)
(* queue (node/src/mdns.rs) and the registration / heartbeat driver        *)
(* (node/src/lib.rs, node/src/api/registration.rs) as one state machine.   *)
(***************************************************************************)
EXTENDS Integers, Sequences, FiniteSets, Bags, TLC

(***************************************************************************)
(* Bounds of the model.                                                    *)
(***************************************************************************)
\* Node identifiers are 1..MaxNode.
MaxNode == 2
\* Advertised priorities of the queue on its own are 0..MaxPri.
MaxPri == 5
\* The queue on its own holds at most MaxQueue candidates.
MaxQueue == 3
\* Discovery events the consumer receives.
MaxDiscoveries == 2
\* Graph calls made by other tasks while the driver runs.
MaxGraphOps == 1
\* Update events the update task consumes.
MaxEvents == 2
MaxCallers == 1

\* pri: u8
U8Max == 255

NodeIds     == 1..MaxNode
DeviceIds   == {1, 2}
SourceIds   == {1}
FlowIds     == {1}
SenderIds   == {1}
ReceiverIds == {1}

(***************************************************************************)
(* The entities, reduced to their identifier and their references          *)
(* (resource/device.rs DeviceBuilder, resource/source.rs SourceBuilder,    *)
(* resource/flow.rs FlowBuilder, ...).                                     *)
(***************************************************************************)
Nodes     == [id : NodeIds]
Devices   == [id : DeviceIds, node_id : NodeIds]
Sources   == [id : SourceIds, device_id : DeviceIds]
Flows     == [id : FlowIds, device_id : DeviceIds, source_id : SourceIds]
Senders   == [id : SenderIds, device_id : DeviceIds, flow_id : FlowIds]
Receivers == [id : ReceiverIds, device_id : DeviceIds]

VARIABLES
    \* struct Model: one HashMap per kind, identifier -> entity
    nodes, devices, sources, flows, senders, receivers,
    \* the last call made on the graph (with, as history, whether its
    \* identifier was a key of its kind's collection) and the value it returned
    call, ret,
    \* history: the <<kind, id>> written by an insert that ran while one of
    \* the entity's required references was absent
    unchecked,
    \* Node::start: the BinaryHeap of discovered registries (a bag)
    registries,
    \* Node.current_registry: Option<NmosMdnsRegistry>
    current_registry,
    \* the registration task's position: "select" (asleep until the selection
    \* tick), "post_wait" (inside register_resources, a POST in flight),
    \* "heartbeat_wait" (in the heartbeat loop, a heartbeat in flight or the
    \* interval sleep before the next), "panicked" (an unwrap failed)
    pc,
    \* whether the pass in progress is the one started from the heartbeat loop
    rereg,
    \* register_resources: the kind being iterated, and the identifiers of
    \* that kind's read guard not yet POSTed
    phase, todo,
    \* the POSTs of the current (or last) pass, in order, the last one being
    \* the one in flight while pc = "post_wait"
    posted,
    \* the local first_attempt of the heartbeat loop
    first_attempt,
    \* the heartbeat endpoint of the session: registry and node identifier
    heartbeat_url,
    \* the last response the registration task received: the request it
    \* answers ("resource": a POST of the pass, "health": a heartbeat) and
    \* its status
    response,
    \* history: whether a heartbeat of the session was answered with success,
    \* and the re-registration passes of the session
    beaten, reregs,
    \* history: discovery events consumed, graph calls made beside the driver
    discovered, graph_ops,
    \* history: the priorities popped since the last push
    popped,
    \* history: the last discovery record the mdns_receiver consumed
    received,
    \* the update task: the number of events consumed; the last event, the
    \* answer to its first request and the requests sent for it, in order;
    \* whether it ended in the warning "No registry available!"
    events, outbox, warned,
    \* history: whether the last tick of the outer loop found the heap empty
    \* (registry.is_none(), lib.rs 222)
    idle,
    \* Node::start: the task whose future completed first, on which select!
    \* and with it start() returned (None while start() is running)
    returned,
    \* the sending sides of the two channels: "open" while a sender is alive,
    \* "closed" once every sender is dropped (recv() then yields None)
    event_channel, mdns_tx,
    \* the locks: each task's lock program and its position in it, and each
    \* lock's queue of waiting tasks, oldest first
    task, waiters,
    \* the insert_<kind> call that has made its reference checks and waits for
    \* the write lock of its own collection (None when no insert is between
    \* its checks and its return), with the read guards it holds
    in_flight,
    \* the last application of an entity's wire functions: the function, the
    \* entity and API version it was applied to, and its outcome
    wire

graph == <<nodes, devices, sources, flows, senders, receivers>>
graphVars == <<nodes, devices, sources, flows, senders, receivers, call, ret, unchecked>>
queueVars == <<registries, current_registry, popped>>
passVars == <<pc, rereg, phase, todo, posted, first_attempt, heartbeat_url, response,
              beaten, reregs>>
updateVars == <<events, outbox, warned>>
startVars == <<returned, event_channel, mdns_tx>>
lockVars == <<task, waiters, in_flight>>
vars == <<graphVars, queueVars, passVars, discovered, graph_ops, received, updateVars, idle,
          startVars, lockVars, wire>>

\* HashMap::new
EmptyMap == << >>

\* HashMap::contains_key
contains_key(m, k) == k \in DOMAIN m

\* faulty variant: the map is left with the new entry alone
MapInsertAlone(m, k, v) == [x \in {k} |-> v]

\* faulty variant: the value of a key already present is kept
MapInsertIfAbsent(m, k, v) == [x \in (DOMAIN m) \cup {k} |-> IF x \in DOMAIN m THEN m[x] ELSE v]

\* HashMap::insert: adds the key, or replaces the value it maps to
MapInsert(m, k, v) == [x \in (DOMAIN m) \cup {k} |-> IF x = k THEN v ELSE m[x]]

\* HashMap::remove
MapRemove(m, k) == [x \in (DOMAIN m) \ {k} |-> m[x]]

(***************************************************************************)
(* Model::from_resources: each vector of the bundle is folded into a map,  *)
(* a later entity replacing an earlier one of the same identifier. No      *)
(* reference is looked at.                                                 *)
(***************************************************************************)
RECURSIVE Fold(_, _)
Fold(m, vec) ==
    IF vec = << >> THEN m
    ELSE Fold(MapInsert(m, Head(vec).id, Head(vec)), Tail(vec))

\* The resource bundles a graph is built from; the first is Model::new().
ResourceBundles ==
    LET none == [nodes |-> << >>, devices |-> << >>, sources |-> << >>,
                 flows |-> << >>, senders |-> << >>, receivers |-> << >>]
    IN  { none,
          [none EXCEPT !.sources = << [id |-> 1, device_id |-> 1] >>],
          [none EXCEPT !.nodes   = << [id |-> 1] >>,
                       !.devices = << [id |-> 1, node_id |-> 1] >>,
                       !.sources = << [id |-> 1, device_id |-> 1] >>],
          [none EXCEPT !.devices = << [id |-> 1, node_id |-> 2] >>],
          [none EXCEPT !.nodes = << [id |-> 1], [id |-> 2] >>],
          [none EXCEPT !.nodes     = << [id |-> 1] >>,
                       !.devices   = << [id |-> 1, node_id |-> 1],
                                        [id |-> 2, node_id |-> 1] >>,
                       !.sources   = << [id |-> 1, device_id |-> 1] >>,
                       !.flows     = << [id |-> 1, device_id |-> 1, source_id |-> 1] >>,
                       !.senders   = << [id |-> 1, device_id |-> 1, flow_id |-> 1] >>,
                       !.receivers = << [id |-> 1, device_id |-> 2] >>] }

from_resources(b) ==
    /\ nodes     = Fold(EmptyMap, b.nodes)
    /\ devices   = Fold(EmptyMap, b.devices)
    /\ sources   = Fold(EmptyMap, b.sources)
    /\ flows     = Fold(EmptyMap, b.flows)
    /\ senders   = Fold(EmptyMap, b.senders)
    /\ receivers = Fold(EmptyMap, b.receivers)

(***************************************************************************)
(* The reference checks of the inserts.                                    *)
(***************************************************************************)
\* faulty variant: the node identifier looked up in the devices
DeviceRefsPresentWrongMap(device) == contains_key(devices, device.node_id)

DeviceRefsPresent(device) == contains_key(nodes, device.node_id)

ReceiverRefsPresent(receiver) == contains_key(devices, receiver.device_id)

SenderRefsPresent(sender) ==
    ~ (~ contains_key(devices, sender.device_id) \/ ~ contains_key(flows, sender.flow_id))

\* faulty variant: && in the place of ||: one present reference is enough
FlowRefsPresentEither(flow) ==
    ~ (~ contains_key(devices, flow.device_id) /\ ~ contains_key(sources, flow.source_id))

FlowRefsPresent(flow) ==
    ~ (~ contains_key(devices, flow.device_id) \/ ~ contains_key(sources, flow.source_id))

\* History: what an insert that wrote <<kind, id>> adds to, or clears from, unchecked.
Written(kind, id, present) ==
    IF present THEN unchecked \ {<<kind, id>>} ELSE unchecked \cup {<<kind, id>>}

(***************************************************************************)
(* The read guards register_resources holds while a POST is in flight: the *)
(* guard of the nodes for the whole pass (let nodes = model.nodes().await) *)
(* and the guard of the kind whose for loop is running. A writer of that   *)
(* kind's RwLock waits until the guard is dropped.                         *)
(***************************************************************************)
DriverReads(kind) == pc = "post_wait" /\ (kind = "node" \/ phase = kind)

(***************************************************************************)
(* Model::insert_<kind>                                                    *)
(***************************************************************************)
insert_node(node) ==
    /\ ~ DriverReads("node")
    /\ nodes' = MapInsert(nodes, node.id, node)
    /\ ret' = "Some"
    /\ UNCHANGED <<devices, sources, flows, senders, receivers, unchecked>>

insert_device(device) ==
    /\ DeviceRefsPresent(device) => ~ DriverReads("device")
    /\ IF ~ DeviceRefsPresent(device)
       THEN /\ ret' = "None"
            /\ UNCHANGED <<devices, unchecked>>
       ELSE /\ devices' = MapInsert(devices, device.id, device)
            /\ unchecked' = Written("device", device.id, contains_key(nodes, device.node_id))
            /\ ret' = "Some"
    /\ UNCHANGED <<nodes, sources, flows, senders, receivers>>

insert_receiver(receiver) ==
    /\ ReceiverRefsPresent(receiver) => ~ DriverReads("receiver")
    /\ IF ~ ReceiverRefsPresent(receiver)
       THEN /\ ret' = "None"
            /\ UNCHANGED <<receivers, unchecked>>
       ELSE /\ receivers' = MapInsert(receivers, receiver.id, receiver)
            /\ unchecked' = Written("receiver", receiver.id,
                                    contains_key(devices, receiver.device_id))
            /\ ret' = "Some"
    /\ UNCHANGED <<nodes, devices, sources, flows, senders>>

insert_sender(sender) ==
    /\ SenderRefsPresent(sender) => ~ DriverReads("sender")
    /\ IF ~ SenderRefsPresent(sender)
       THEN /\ ret' = "None"
            /\ UNCHANGED <<senders, unchecked>>
       ELSE /\ senders' = MapInsert(senders, sender.id, sender)
            /\ unchecked' = Written("sender", sender.id,
                                    /\ contains_key(devices, sender.device_id)
                                    /\ contains_key(flows, sender.flow_id))
            /\ ret' = "Some"
    /\ UNCHANGED <<nodes, devices, sources, flows, receivers>>

insert_flow(flow) ==
    /\ FlowRefsPresent(flow) => ~ DriverReads("flow")
    /\ IF ~ FlowRefsPresent(flow)
       THEN /\ ret' = "None"
            /\ UNCHANGED <<flows, unchecked>>
       ELSE /\ flows' = MapInsert(flows, flow.id, flow)
            /\ unchecked' = Written("flow", flow.id,
                                    /\ contains_key(devices, flow.device_id)
                                    /\ contains_key(sources, flow.source_id))
            /\ ret' = "Some"
    /\ UNCHANGED <<nodes, devices, sources, senders, receivers>>

(***************************************************************************)
(* Model::remove_<kind>: HashMap::remove(id).map(|_| ())                   *)
(***************************************************************************)
\* faulty variant: Some(()) whether or not the key was there
RemoveResultAlwaysSome(m, id) == "Some"

RemoveResult(m, id) == IF contains_key(m, id) THEN "Some" ELSE "None"

\* faulty variant: the devices of the node are removed with it
remove_nodeCascading(id) ==
    /\ ~ DriverReads("node")
    /\ nodes' = MapRemove(nodes, id)
    /\ devices' = [x \in { d \in DOMAIN devices : devices[d].node_id # id } |-> devices[x]]
    /\ ret' = IF contains_key(nodes, id) THEN "Some" ELSE "None"
    /\ UNCHANGED <<sources, flows, senders, receivers, unchecked>>

remove_node(id) ==
    /\ ~ DriverReads("node")
    /\ nodes' = MapRemove(nodes, id)
    /\ ret' = RemoveResult(nodes, id)
    /\ UNCHANGED <<devices, sources, flows, senders, receivers, unchecked>>

remove_device(id) ==
    /\ ~ DriverReads("device")
    /\ devices' = MapRemove(devices, id)
    /\ ret' = RemoveResult(devices, id)
    /\ unchecked' = unchecked \ {<<"device", id>>}
    /\ UNCHANGED <<nodes, sources, flows, senders, receivers>>

remove_source(id) ==
    /\ ~ DriverReads("source")
    /\ sources' = MapRemove(sources, id)
    /\ ret' = RemoveResult(sources, id)
    /\ UNCHANGED <<nodes, devices, flows, senders, receivers, unchecked>>

remove_sender(id) ==
    /\ ~ DriverReads("sender")
    /\ senders' = MapRemove(senders, id)
    /\ ret' = RemoveResult(senders, id)
    /\ unchecked' = unchecked \ {<<"sender", id>>}
    /\ UNCHANGED <<nodes, devices, sources, flows, receivers>>

remove_receiver(id) ==
    /\ ~ DriverReads("receiver")
    /\ receivers' = MapRemove(receivers, id)
    /\ ret' = RemoveResult(receivers, id)
    /\ unchecked' = unchecked \ {<<"receiver", id>>}
    /\ UNCHANGED <<nodes, devices, sources, flows, senders>>

remove_flow(id) ==
    /\ ~ DriverReads("flow")
    /\ flows' = MapRemove(flows, id)
    /\ ret' = RemoveResult(flows, id)
    /\ unchecked' = unchecked \ {<<"flow", id>>}
    /\ UNCHANGED <<nodes, devices, sources, senders, receivers>>


(***************************************************************************)
(* Option<T>                                                               *)
(***************************************************************************)
None == [some |-> FALSE]
Some(v) == [some |-> TRUE, val |-> v]

(***************************************************************************)
(* mdns.rs: a discovery record and NmosMdnsRegistry::parse. A record is    *)
(* its TXT map (None, or a map from keys to texts), its address and port.  *)
(* The text of api_ver is given as its comma separated entries, the text   *)
(* of pri as the integer it spells (-1: not a number).                     *)
(***************************************************************************)
TxtKeys == {"api_proto", "api_ver", "api_auth", "pri"}

\* IpAddr::from_str
IpAddrFromStr(address) ==
    IF address \in {"10.0.0.1", "10.0.0.2"} THEN Some(address) ELSE None

\* Url::parse of "<api_proto>://<authority>/x-nmos/registration/"
UrlParse(api_proto, authority) ==
    IF api_proto = "" THEN None
    ELSE Some([scheme |-> api_proto, authority |-> authority,
               path |-> "/x-nmos/registration/"])

\* APIVersion::from_str
APIVersionFromStr(text) ==
    IF text \in {"v1.0", "v1.3"} THEN Some(text) ELSE None

\* api_ver.split(',').flat_map(APIVersion::from_str).collect(): the entries
\* that parse, in order; an entry that does not parse is skipped
RECURSIVE FlatMapVersions(_)
FlatMapVersions(entries) ==
    IF entries = << >> THEN << >>
    ELSE LET v == APIVersionFromStr(Head(entries))
         IN  (IF v.some THEN << v.val >> ELSE << >>) \o FlatMapVersions(Tail(entries))

\* str::parse::<bool>
ParseBool(text) ==
    IF text = "true" THEN Some(TRUE)
    ELSE IF text = "false" THEN Some(FALSE)
    ELSE None

\* str::parse::<u8>
ParseU8(text) == IF text \in 0..U8Max THEN Some(text) ELSE None

\* faulty variant: a record without api_auth is read as api_auth=false
TxtGetOrNoAuth(txt, key) ==
    IF key \in DOMAIN txt THEN Some(txt[key])
    ELSE IF key = "api_auth" THEN Some("false")
    ELSE None

\* TxtRecord::get
TxtGet(txt, key) == IF key \in DOMAIN txt THEN Some(txt[key]) ELSE None

parse(discovery) ==
    IF ~ discovery.txt.some THEN None
    ELSE LET txt == discovery.txt.val IN
    IF \E key \in TxtKeys : ~ TxtGet(txt, key).some THEN None
    ELSE LET api_proto_txt == TxtGet(txt, "api_proto").val
             api_ver_txt   == TxtGet(txt, "api_ver").val
             api_auth_txt  == TxtGet(txt, "api_auth").val
             pri_txt       == TxtGet(txt, "pri").val
             address       == IpAddrFromStr(discovery.address)
         IN
    IF ~ address.some THEN None
    ELSE LET url == UrlParse(api_proto_txt, <<address.val, discovery.port>>) IN
    IF ~ url.some THEN None
    ELSE LET api_ver  == FlatMapVersions(api_ver_txt)
             api_auth == ParseBool(api_auth_txt)
             pri      == ParseU8(pri_txt)
         IN
    IF ~ api_auth.some THEN None
    ELSE IF ~ pri.some THEN None
    ELSE Some([api_proto |-> api_proto_txt, api_ver |-> api_ver,
               api_auth |-> api_auth.val, pri |-> pri.val, url |-> url.val])

\* A well-formed advertisement of the registry at host, with priority text pri.
Advert(host, pri) ==
    [txt |-> Some([api_proto |-> "http", api_ver |-> << "v1.0", "v1.3" >>,
                   api_auth |-> "false", pri |-> pri]),
     address |-> host, port |-> 80]

\* the record d with the key left out of its TXT map
WithoutKey(d, key) ==
    [d EXCEPT !.txt = Some([k \in (DOMAIN d.txt.val) \ {key} |-> d.txt.val[k]])]

\* the record d with the text of key replaced
WithText(d, key, text) == [d EXCEPT !.txt = Some([d.txt.val EXCEPT ![key] = text])]

\* Records of every shape parse tells apart: well-formed ones (one of a
\* registry that supports v1.0 only), no TXT map, each key missing, an
\* address that is no IP address, a version list with an entry that is no
\* version, an api_auth that is no boolean, a pri that is no u8.
DiscoveryRecords ==
    LET good == Advert("10.0.0.2", 1)
    IN  { Advert("10.0.0.1", 2), good,
          WithText(Advert("10.0.0.1", 3), "api_ver", << "v1.0" >>),
          [txt |-> None, address |-> "10.0.0.2", port |-> 80] }
        \cup { WithoutKey(good, key) : key \in TxtKeys }
        \cup { [good EXCEPT !.address = "registry.local"],
               WithText(good, "api_ver", << "v1.3", "garbage" >>),
               WithText(good, "api_auth", "yes"),
               WithText(good, "pri", -1),
               WithText(good, "pri", U8Max + 1) }

\* The records the discovery feed delivers while the driver runs.
DiscoveryInputs ==
    { Advert("10.0.0.1", 2), Advert("10.0.0.2", 1),
      [txt |-> None, address |-> "10.0.0.2", port |-> 80] }

(***************************************************************************)
(* mdns.rs: impl Ord for NmosMdnsRegistry, and the BinaryHeap (a max-heap) *)
(***************************************************************************)
\* u8::cmp: Less = -1, Equal = 0, Greater = 1
CmpU8(a, b) == IF a < b THEN -1 ELSE IF a = b THEN 0 ELSE 1

\* faulty variant: self.pri.cmp(&other.pri)
cmpAscending(self, other) == CmpU8(self.pri, other.pri)

\* NmosMdnsRegistry::cmp(self, other)
cmp(self, other) == CmpU8(other.pri, self.pri)

\* faulty variant: the new candidate takes the place of those queued
HeapPushReplacing(heap, registry) == SetToBag({registry})

\* faulty variant: a registry equal to one in the heap is not pushed again
HeapPushUnlessPresent(heap, registry) ==
    IF BagIn(registry, heap) THEN heap ELSE heap (+) SetToBag({registry})

\* BinaryHeap::push
HeapPush(heap, registry) == heap (+) SetToBag({registry})

\* BinaryHeap::pop yields a greatest element of the heap (any of them on a tie)
HeapGreatest(heap) ==
    { r \in BagToSet(heap) : \A o \in BagToSet(heap) : cmp(r, o) >= 0 }

\* faulty variant: the greatest candidate is read and left in the heap
HeapPeek(heap, registry) == heap

HeapRemove(heap, registry) == heap (-) SetToBag({registry})

(***************************************************************************)
(* The registries. What a registry answers is the environment's choice;    *)
(* the hosts of AcceptingHosts answer every POST and heartbeat with 2xx.   *)
(* "transport" stands for send() returning Err (timeout, refused).         *)
(***************************************************************************)
Statuses == {"2xx", "3xx", "404", "409", "5xx", "transport"}

AcceptingHosts == {"10.0.0.1"}

AcceptsAll(registry) == registry.url.authority[1] \in AcceptingHosts

Responses(registry) == IF AcceptsAll(registry) THEN {"2xx"} ELSE Statuses

\* faulty variant: error_for_status() left out
PostFailsTransportOnly(resp) == resp = "transport"

\* faulty variant: the result of the POST is not looked at
PostFailsNever(resp) == FALSE

\* client.post(..).send().await?.error_for_status()?: Err on a transport
\* error and on a 4xx or 5xx status
PostFails(resp) == resp \in {"transport", "404", "409", "5xx"}

\* faulty variant: a redirection taken for a success
is_successOrRedirect(resp) == resp \in {"2xx", "3xx"}

\* StatusCode::is_success
is_success(resp) == resp = "2xx"

(***************************************************************************)
(* RegistrationApi::register_resources                                     *)
(***************************************************************************)
\* NodeBuilder: api_version (V1_3 unless with_api_version is used)
api_version == "v1.3"

\* base = registry.url.join("v1.0/"); resource_url = base.join("resource"):
\* the URL every POST of a pass goes to
resource_url(registry) ==
    [registry |-> registry.url, version |-> "v1.0", path |-> << "resource" >>]

\* faulty variant: the flows registered before the sources
RegistrationOrderFlowsFirst == << "node", "device", "flow", "source", "sender", "receiver" >>

\* the order of the register_<kind> calls
RegistrationOrder == << "node", "device", "source", "flow", "sender", "receiver" >>

Position(kind) == CHOOSE i \in 1..Len(RegistrationOrder) : RegistrationOrder[i] = kind

\* model.<kind>s().await: the identifiers under the kind's read guard
Guarded(kind) ==
    CASE kind = "node"     -> DOMAIN nodes
      [] kind = "device"   -> DOMAIN devices
      [] kind = "source"   -> DOMAIN sources
      [] kind = "flow"     -> DOMAIN flows
      [] kind = "sender"   -> DOMAIN senders
      [] kind = "receiver" -> DOMAIN receivers

\* the first for loop from position i on whose collection is not empty
RECURSIVE Upcoming(_)
Upcoming(i) ==
    IF i > Len(RegistrationOrder) THEN [kind |-> "done", ids |-> {}]
    ELSE IF Guarded(RegistrationOrder[i]) # {}
         THEN [kind |-> RegistrationOrder[i], ids |-> Guarded(RegistrationOrder[i])]
         ELSE Upcoming(i + 1)

\* what is left to POST once the POST in flight is answered
Work == IF todo # {} THEN [kind |-> phase, ids |-> todo] ELSE Upcoming(Position(phase) + 1)

\* the unwrap of nodes.iter().next(): a panic on a graph without node
Panic ==
    /\ pc' = "panicked"
    /\ UNCHANGED <<rereg, phase, todo, posted, first_attempt, heartbeat_url>>

\* let node = nodes.iter().next().unwrap().1; register_node(..): the pass
\* starts with the POST of the node the iterator yields first
BeginPass(again) ==
    IF DOMAIN nodes = {} THEN Panic
    ELSE \E id \in DOMAIN nodes :
            /\ pc' = "post_wait"
            /\ rereg' = again
            /\ phase' = "node"
            /\ todo' = {}
            /\ posted' = << [kind |-> "node", id |-> id] >>
            /\ UNCHANGED <<first_attempt, heartbeat_url>>

\* the driver is back at the top of the outer loop: the locals are gone
ToSelect ==
    /\ pc' = "select"
    /\ rereg' = FALSE
    /\ phase' = "node"
    /\ todo' = {}
    /\ first_attempt' = TRUE
    /\ heartbeat_url' = None
    /\ UNCHANGED posted

\* faulty variant: first_attempt = false left out
ToHeartbeatFirstKept(first) ==
    /\ pc' = "heartbeat_wait"
    /\ rereg' = FALSE
    /\ phase' = "node"
    /\ todo' = {}
    /\ UNCHANGED <<posted, heartbeat_url, first_attempt>>

\* the heartbeat loop sends the next heartbeat (straight away after a
\* re-registration, after the interval sleep otherwise)
ToHeartbeat(first) ==
    /\ pc' = "heartbeat_wait"
    /\ rereg' = FALSE
    /\ phase' = "node"
    /\ todo' = {}
    /\ first_attempt' = first
    /\ UNCHANGED <<posted, heartbeat_url>>

(***************************************************************************)
(* Node::start, select! (lib.rs 344-349): the four futures are polled by   *)
(* start() itself; when one completes the others are dropped where they    *)
(* are and start() returns.                                                *)
(***************************************************************************)
\* faulty variant: the tasks are spawned and survive the return of start()
RunningDetached == TRUE

\* a task's future is polled only while select! is pending
Running == returned = None

(***************************************************************************)
(* Node::start, registration: the selection tick (lib.rs 208-241)          *)
(***************************************************************************)
\* The tick of the outer loop, taken at one of the given positions of the
\* task; popped_none is what the cell is left with when the heap is empty.
Tick(positions, popped_none) ==
    /\ Running
    /\ pc \in positions
    /\ IF BagToSet(registries) = {}
       THEN /\ current_registry' = popped_none
            /\ idle' = TRUE
            /\ UNCHANGED <<registries, passVars>>
       ELSE \E r \in HeapGreatest(registries) :
               /\ current_registry' = Some(r)
               /\ registries' = HeapRemove(registries, r)
               /\ idle' = FALSE
               /\ beaten' = FALSE
               /\ reregs' = 0
               /\ UNCHANGED response
               /\ BeginPass(FALSE)
    /\ UNCHANGED <<graphVars, popped, discovered, graph_ops, received, updateVars,
                   startVars, lockVars, wire>>

\* faulty variant: the selection timer ticks during the heartbeat loop too
SelectAtAnyTick == Tick({"select", "heartbeat_wait"}, None)

\* faulty variant: the cell is written only when a candidate was popped
SelectKeepingCell == Tick({"select"}, current_registry)

\* sleep(5 s); *registry = registries.pop(); if registry.is_none() { continue }
\* register_resources(..)
Select == Tick({"select"}, None)

(***************************************************************************)
(* register_resources: the POST in flight is answered. An Err ends the     *)
(* pass (the ? operator); otherwise the next entity is POSTed, or the pass *)
(* returns Ok.                                                             *)
(***************************************************************************)
PostResponse ==
    /\ Running
    /\ pc = "post_wait"
    /\ \E resp \in Responses(current_registry.val) :
          /\ response' = [req |-> "resource", status |-> resp]
          /\ IF PostFails(resp) THEN ToSelect
             ELSE IF Work.kind # "done"
             THEN \E id \in Work.ids :
                     /\ posted' = Append(posted, [kind |-> Work.kind, id |-> id])
                     /\ phase' = Work.kind
                     /\ todo' = Work.ids \ {id}
                     /\ UNCHANGED <<pc, rereg, first_attempt, heartbeat_url>>
             ELSE IF rereg
             THEN ToHeartbeat(FALSE)
             ELSE /\ pc' = "registered"
                  /\ phase' = "node"
                  /\ todo' = {}
                  /\ UNCHANGED <<rereg, posted, first_attempt, heartbeat_url>>
    /\ UNCHANGED <<graphVars, queueVars, beaten, reregs, discovered, graph_ops, received, updateVars, idle, startVars, lockVars, wire>>

(***************************************************************************)
(* Node::start, registration: the heartbeat endpoint (lib.rs 243-257) and  *)
(* the first heartbeat                                                     *)
(***************************************************************************)
GetHeartbeatUrl ==
    /\ Running
    /\ pc = "registered"
    /\ IF DOMAIN nodes = {} THEN Panic
       ELSE \E node_id \in DOMAIN nodes :
               /\ heartbeat_url' = Some([registry |-> current_registry.val,
                                         version |-> api_version,
                                         node_id |-> node_id])
               /\ pc' = "heartbeat_wait"
               /\ first_attempt' = TRUE
               /\ UNCHANGED <<rereg, phase, todo, posted>>
    /\ UNCHANGED <<graphVars, queueVars, response, beaten, reregs, discovered, graph_ops, received, updateVars, idle, startVars, lockVars, wire>>

(***************************************************************************)
(* Node::start, registration: the heartbeat loop (lib.rs 259-291)          *)
(***************************************************************************)
HeartbeatResponse ==
    /\ Running
    /\ pc = "heartbeat_wait"
    /\ \E resp \in Responses(heartbeat_url.val.registry) :
          /\ response' = [req |-> "health", status |-> resp]
          /\ IF resp = "transport"
             THEN ToSelect /\ UNCHANGED <<beaten, reregs>>
             ELSE IF ~ is_success(resp)
             THEN IF resp = "404" /\ first_attempt
                  THEN /\ reregs' = reregs + 1
                       /\ BeginPass(TRUE)
                       /\ UNCHANGED beaten
                  ELSE ToSelect /\ UNCHANGED <<beaten, reregs>>
             ELSE /\ beaten' = TRUE
                  /\ UNCHANGED <<pc, rereg, phase, todo, posted, first_attempt,
                                 heartbeat_url, reregs>>
    /\ UNCHANGED <<graphVars, queueVars, discovered, graph_ops, received, updateVars, idle, startVars, lockVars, wire>>

(***************************************************************************)
(* Node::start, mdns_receiver (lib.rs 165-187)                             *)
(***************************************************************************)
Discover(discovery) ==
    /\ Running
    /\ mdns_tx = "open"
    /\ pc # "panicked"
    /\ discovered < MaxDiscoveries
    /\ discovered' = discovered + 1
    /\ LET registry == parse(discovery)
       IN  IF registry.some
           THEN registries' = HeapPush(registries, registry.val)
           ELSE UNCHANGED registries
    /\ received' = Some(discovery)
    /\ UNCHANGED <<graphVars, current_registry, popped, passVars, graph_ops, updateVars, idle, startVars, lockVars, wire>>

(***************************************************************************)
(* Node::start, update: the update task (lib.rs 295-342). One event of the *)
(* channel is consumed and handled under the guard of current_registry,    *)
(* which is taken in the if-let and held until the handler ends.           *)
(***************************************************************************)
\* the resources the events carry, and the events (enum ResourceUpdate)
EventResources == { [kind |-> "device", id |-> 1], [kind |-> "node", id |-> 1] }

ResourceUpdate == [update : {"Update", "Added", "Removed"}, resource : EventResources]

\* the kinds that implement Registerable (node.rs 137, device.rs 97,
\* flow.rs 144, receiver.rs 106); Source and Sender do not
RegisterableKinds == {"node", "device", "flow", "receiver"}

\* Registerable::registry_path: format!("<prefix>{}", self.core.id)
registry_path(resource) ==
    CASE resource.kind = "node" -> << "/nodes/", resource.id >>
      [] resource.kind = "device" -> << "devices/", resource.id >>
      [] resource.kind = "flow" -> << "flows/", resource.id >>
      [] resource.kind = "receiver" -> << "receivers/", resource.id >>

(***************************************************************************)
(* resource/*.rs: to_json and registration_request. An entity is reduced   *)
(* to the fields the conversions branch on; a payload to its version tag.  *)
(***************************************************************************)
Kinds == {"node", "device", "source", "flow", "sender", "receiver"}

\* enum Format
Formats == {"Video", "Audio", "Data"}

\* the values of APIVersion
APIVersions == {"v1.0", "v1.1", "v1.2", "v1.3"}

\* tags_empty: core.tags.is_empty(); href_port: href.port().is_some()
WireEntities ==
    [kind : Kinds, id : 1..MaxNode, format : Formats, tags_empty : BOOLEAN,
     href_port : BOOLEAN]

Panicked(message) == [panic |-> TRUE, message |-> message]

Payload(variant, entity) ==
    [panic |-> FALSE, variant |-> variant, kind |-> entity.kind, id |-> entity.id]

\* the V1_3 arm of to_json: Flow's Into<v1_3_x::Flow> panics on Format::Data
\* (flow.rs 235-237), Sender unwraps its tags (sender.rs 147), Node unwraps
\* the host and port of its href (node.rs 122-123)
ToV1_3(entity) ==
    IF entity.kind = "flow" /\ entity.format = "Data"
    THEN Panicked("Data flow not implemented")
    ELSE IF entity.kind = "sender" /\ entity.tags_empty
    THEN Panicked("unwrap on None")
    ELSE IF entity.kind = "node" /\ ~ entity.href_port
    THEN Panicked("unwrap on None")
    ELSE Payload("V1_3", entity)

\* faulty variant: any other version is served with the newest shape
to_jsonNewestByDefault(entity, api) ==
    IF api = "v1.0" THEN Payload("V1_0", entity) ELSE ToV1_3(entity)

\* <Kind>::to_json: match *api { V1_0 => .., V1_3 => .., _ => panic!(..) }
to_json(entity, api) ==
    CASE api = "v1.0" -> Payload("V1_0", entity)
      [] api = "v1.3" -> ToV1_3(entity)
      [] OTHER -> Panicked("Unsupported API")

\* the kinds that have a registration_request (Sender has none)
RequestKinds == Kinds \ {"sender"}

\* <Kind>::registration_request: match self.to_json(api) { V1_0(json) =>
\* registration_request!(json, v1_0_x), V1_3(json) => .. }: the envelope of
\* the payload's version with the kind's tag
registration_request(entity, api) ==
    LET json == to_json(entity, api)
    IN  IF json.panic THEN json
        ELSE [panic |-> FALSE, variant |-> json.variant, type_ |-> entity.kind,
              data |-> json]

\* one application of a wire function to the entity and version drawn
Apply(op) ==
    /\ wire.op = "input"
    /\ \/ /\ op = "to_json"
          /\ wire' = [wire EXCEPT !.op = op, !.out = to_json(wire.entity, wire.api)]
       \/ /\ op = "registration_request"
          /\ wire.entity.kind \in RequestKinds
          /\ wire' = [wire EXCEPT !.op = op,
                                  !.out = registration_request(wire.entity, wire.api)]
       \/ /\ op = "registry_path"
          /\ wire.entity.kind \in RegisterableKinds
          /\ wire' = [wire EXCEPT !.op = op, !.out = registry_path(wire.entity)]
    /\ UNCHANGED <<graphVars, queueVars, passVars, discovered, graph_ops, received, updateVars,
                   idle, startVars, lockVars>>

\* faulty variant: with no registry in the cell the event goes to a registry
\* at a configured fallback address
UpdateUrlWithFallback(cell) ==
    LET url == IF cell.some THEN cell.val.url
               ELSE [scheme |-> "http", authority |-> << "10.0.0.2", 80 >>,
                     path |-> "/x-nmos/registration/"]
    IN  Some([registry |-> url, version |-> api_version, path |-> << "resource" >>])

\* if let Some(reg) = current_registry.lock().await.clone():
\* url = reg.url.join("<api_version>/").join("resource")
UpdateUrl(cell) ==
    IF cell.some
    THEN Some([registry |-> cell.val.url, version |-> api_version,
               path |-> << "resource" >>])
    ELSE None

\* the answers the registry at url gives the update task
UpdateAnswers(url) ==
    IF url.registry.authority[1] \in AcceptingHosts THEN {"2xx"}
    ELSE {"2xx", "409", "5xx", "transport"}

\* RegistrationApi::post_resource: one POST of the resource
post_resource(url, resource) ==
    << [method |-> "POST", url |-> url, resource |-> resource] >>

\* RegistrationApi::delete_resource: one DELETE at the resource's registry path
delete_resource(url, resource) ==
    << [method |-> "DELETE",
        url |-> [url EXCEPT !.path = @ \o registry_path(resource)],
        resource |-> resource] >>

\* RegistrationApi::register_resource: a POST; when it is answered "already
\* exists", a DELETE and one more POST
register_resource(url, resource, answer) ==
    IF answer = "409"
    THEN post_resource(url, resource) \o delete_resource(url, resource)
            \o post_resource(url, resource)
    ELSE post_resource(url, resource)

\* faulty variant: an added resource sent as an update
DispatchAddedAsUpdate(event, url, answer) ==
    CASE event.update = "Removed" -> delete_resource(url, event.resource)
      [] OTHER -> post_resource(url, event.resource)

\* match event { Update => post_resource, Added => register_resource,
\* Removed => delete_resource }: the requests sent for the event
Dispatch(event, url, answer) ==
    CASE event.update = "Update" -> post_resource(url, event.resource)
      [] event.update = "Added" -> register_resource(url, event.resource, answer)
      [] event.update = "Removed" -> delete_resource(url, event.resource)

\* faulty variant: an Err of the request is propagated and ends the task
AfterResultPropagating(answer) == IF answer = "2xx" THEN None ELSE Some("update")

\* match res { Ok(response) => debug!(..), Err(err) => warn!(..) }: both arms
\* log and the loop goes on to the next recv(); the value is what select!
\* sees of the task afterwards (None: still pending)
AfterResult(answer) == None

\* while let Some(event) = self.event_channel.recv().await { .. }: one turn
Update(event) ==
    /\ Running
    /\ event_channel = "open"
    /\ pc # "panicked"
    /\ events < MaxEvents
    /\ events' = events + 1
    /\ LET url == UpdateUrl(current_registry) IN
       IF url.some
       THEN \E answer \in UpdateAnswers(url.val) :
               /\ outbox' = [event |-> Some(event), answer |-> answer,
                             requests |-> Dispatch(event, url.val, answer)]
               /\ warned' = FALSE
               /\ returned' = AfterResult(answer)
       ELSE /\ outbox' = [event |-> Some(event), answer |-> "none", requests |-> << >>]
            /\ warned' = TRUE
            /\ UNCHANGED returned
    /\ UNCHANGED <<graphVars, queueVars, passVars, discovered, graph_ops, received, idle,
                   event_channel, mdns_tx, lockVars, wire>>

(***************************************************************************)
(* Node::start: the ends of the tasks                                      *)
(***************************************************************************)
\* NodeBuilder::new, from_resources (lib.rs 46, 57): event_channel is the
\* receiving half of mpsc::unbounded_channel().1, a channel whose sender is
\* dropped in the same expression
DefaultEventChannel == "closed"

\* NodeBuilder::with_event_channel (lib.rs 83-86): the receiving half of a
\* channel whose sender the caller keeps
with_event_channel == "open"

\* the futures of select!
Tasks == {"mdns_receiver", "http_server", "registration", "update"}

\* the mdns thread (lib.rs 147-162): an expect or unwrap of the browsers or
\* of poll() fails (mdns.rs 225-257); the thread unwinds and drops tx and
\* the context that holds its clones
MdnsThreadPanics ==
    /\ mdns_tx = "open"
    /\ mdns_tx' = "closed"
    /\ UNCHANGED <<graphVars, queueVars, passVars, discovered, graph_ops, received, updateVars,
                   idle, returned, event_channel, lockVars, wire>>

\* the owner of the event channel's sender drops it
SenderDropped ==
    /\ event_channel = "open"
    /\ event_channel' = "closed"
    /\ UNCHANGED <<graphVars, queueVars, passVars, discovered, graph_ops, received, updateVars,
                   idle, returned, mdns_tx, lockVars, wire>>

\* whether the future of the task is ready when polled:
\* mdns_receiver and update end when recv() yields None (while let Some(..));
\* the server's future ends when serving fails; the registration task is a
\* loop with no break of the outer loop and no return
Completes(t) ==
    CASE t = "mdns_receiver" -> mdns_tx = "closed"
      [] t = "update" -> event_channel = "closed"
      [] t = "http_server" -> TRUE
      [] t = "registration" -> FALSE

\* tokio::select! { _ = mdns_receiver => {} .. }; error!(..); Ok(())
TaskCompletes(t) ==
    /\ returned = None
    /\ pc # "panicked"
    /\ Completes(t)
    /\ returned' = Some(t)
    /\ UNCHANGED <<graphVars, queueVars, passVars, discovered, graph_ops, received, updateVars,
                   idle, event_channel, mdns_tx, lockVars, wire>>

(***************************************************************************)
(* The locks. Each task is reduced to its lock program: the acquisitions,  *)
(* the releases (where the guard is dropped) and the points where it       *)
(* pauses with its guards held (an outbound HTTP call it awaits; a guard   *)
(* an accessor has handed to its caller), in the order of the code. A task *)
(* runs from one await that suspends it to the next: a lock it asks for is *)
(* granted at once when nobody waits for it and its holders allow it, and  *)
(* the task runs on; otherwise the task joins the lock's queue. tokio's    *)
(* RwLock and Mutex serve their queues first in, first out, so a reader    *)
(* that arrives behind a waiting writer waits too.                         *)
(***************************************************************************)
Locks == {"nodes", "devices", "sources", "flows", "senders", "receivers",
          "current_registry", "registries"}

\* A step is <<"lock", lock, mode>>, <<"unlock", lock>>, <<"http">> (an
\* outbound request awaited) or <<"use">> (the caller uses a guard).
\*
\* One turn of the outer loop of the registration task: the selection block
\* (the guard of the cell held while the queue is locked and popped), the
\* pass of register_resources (the nodes guard is a local, dropped at the
\* return; each for loop's guard is a temporary of the for expression,
\* dropped after the loop), the heartbeat URL block and a heartbeat.
registrationLocks ==
    LET KindLoop(l) == << <<"lock", l, "read">>, <<"http">>, <<"unlock", l>> >>
    IN  << <<"lock", "current_registry", "write">>, <<"lock", "registries", "write">>,
           <<"unlock", "registries">>, <<"unlock", "current_registry">>,
           <<"lock", "nodes", "read">>, <<"http">> >>
            \o KindLoop("devices") \o KindLoop("sources") \o KindLoop("flows")
            \o KindLoop("senders") \o KindLoop("receivers")
            \o << <<"unlock", "nodes">>,
                  <<"lock", "nodes", "read">>, <<"lock", "current_registry", "write">>,
                  <<"unlock", "current_registry">>, <<"unlock", "nodes">>, <<"http">> >>

\* faulty variant: the consumer looks at the active registry before it
\* pushes, under the lock of the queue
mdns_receiverLocksReadingCell ==
    << <<"lock", "registries", "write">>, <<"lock", "current_registry", "write">>,
       <<"unlock", "current_registry">>, <<"unlock", "registries">> >>

\* mdns_receiver: registries.lock().await; push; the guard dropped
mdns_receiverLocks == << <<"lock", "registries", "write">>, <<"unlock", "registries">> >>

\* update: the guard of current_registry, a temporary of the if-let, lives
\* until the end of the if-let statement, across the request
updateLocks ==
    << <<"lock", "current_registry", "write">>, <<"http">>,
       <<"unlock", "current_registry">> >>

\* the callers of the graph: insert_<kind>, remove_<kind> and the accessors
\* (named by the lock they read)
CallerPrograms ==
    {"insert_node", "insert_device", "insert_receiver", "insert_sender", "insert_flow"}
        \cup {"remove_node", "remove_device", "remove_source", "remove_flow",
              "remove_sender", "remove_receiver"}
        \cup {"nodes", "devices", "sources", "flows", "senders", "receivers"}

Program(name) ==
    LET WriteOnly(l) == << <<"lock", l, "write">>, <<"unlock", l>> >>
    IN  CASE name = "registration" -> registrationLocks
          [] name = "mdns_receiver" -> mdns_receiverLocks
          [] name = "update" -> updateLocks
          [] name = "insert_node" -> WriteOnly("nodes")
          [] name = "insert_device" ->
                << <<"lock", "nodes", "read">>, <<"lock", "devices", "write">>,
                   <<"unlock", "devices">>, <<"unlock", "nodes">> >>
          [] name = "insert_receiver" ->
                << <<"lock", "devices", "read">>, <<"lock", "receivers", "write">>,
                   <<"unlock", "receivers">>, <<"unlock", "devices">> >>
          [] name = "insert_sender" ->
                << <<"lock", "devices", "read">>, <<"lock", "flows", "read">>,
                   <<"lock", "senders", "write">>,
                   <<"unlock", "senders">>, <<"unlock", "flows">>, <<"unlock", "devices">> >>
          [] name = "insert_flow" ->
                << <<"lock", "devices", "read">>, <<"lock", "sources", "read">>,
                   <<"lock", "flows", "write">>,
                   <<"unlock", "flows">>, <<"unlock", "sources">>, <<"unlock", "devices">> >>
          [] name = "remove_node" -> WriteOnly("nodes")
          [] name = "remove_device" -> WriteOnly("devices")
          [] name = "remove_source" -> WriteOnly("sources")
          [] name = "remove_flow" -> WriteOnly("flows")
          [] name = "remove_sender" -> WriteOnly("senders")
          [] name = "remove_receiver" -> WriteOnly("receivers")
          [] name \in Locks -> << <<"lock", name, "read">>, <<"use">>, <<"unlock", name>> >>
          [] OTHER -> << >>

\* the tasks of start() and the concurrent callers of the graph
TaskIds ==
    {[name |-> t, n |-> 0] : t \in {"registration", "mdns_receiver", "update"}}
        \cup {[name |-> "caller", n |-> i] : i \in 1..MaxCallers}

\* the step the task is at
Step(t) == Program(task[t].prog)[task[t].at]

\* the locks held after the first n steps of a program: those acquired and
\* not released
RECURSIVE HeldAfter(_, _)
HeldAfter(program, n) ==
    IF n = 0 THEN {}
    ELSE LET step == program[n]
             before == HeldAfter(program, n - 1)
         IN  CASE step[1] = "lock" -> before \cup {[lock |-> step[2], mode |-> step[3]]}
               [] step[1] = "unlock" -> {h \in before : h.lock # step[2]}
               [] OTHER -> before

\* the locks the task holds, in the task states tk
HeldIn(tk, t) == HeldAfter(Program(tk[t].prog), tk[t].at - 1)

\* whether the holders of the lock allow the task the mode it asks for
Allowed(tk, t, l, m) ==
    \A u \in TaskIds \ {t} :
        \A h \in HeldIn(tk, u) : h.lock = l => (m = "read" /\ h.mode = "read")

\* the task is past the step it was at
Advance(tk, t) ==
    [tk EXCEPT ![t] = [prog |-> @.prog, at |-> @.at + 1, waiting |-> FALSE]]

\* The task runs on from the step it is at until it is suspended: at a lock
\* it has to wait for, at a point where it pauses, or at the end of its
\* program (a caller has returned; a task of start() is back at the top of
\* its loop, at the sleep or recv() that begins the next turn).
RECURSIVE Run(_, _, _)
Run(tk, wq, t) ==
    IF tk[t].at > Len(Program(tk[t].prog))
    THEN [task |-> [tk EXCEPT ![t] =
                       [prog |-> IF t.name = "caller" THEN "idle" ELSE @.prog,
                        at |-> 1, waiting |-> FALSE]],
          waiters |-> wq]
    ELSE LET step == Program(tk[t].prog)[tk[t].at]
         IN  CASE step[1] = "unlock" -> Run(Advance(tk, t), wq, t)
               [] step[1] = "lock" ->
                    IF wq[step[2]] = << >> /\ Allowed(tk, t, step[2], step[3])
                    THEN Run(Advance(tk, t), wq, t)
                    ELSE [task |-> [tk EXCEPT ![t].waiting = TRUE],
                          waiters |-> [wq EXCEPT ![step[2]] = Append(@, t)]]
               [] OTHER -> [task |-> tk, waiters |-> wq]

\* a caller calls an operation of the graph
Call(t, name) ==
    /\ t.name = "caller"
    /\ task[t].prog = "idle"
    /\ LET after == Run([task EXCEPT ![t] = [prog |-> name, at |-> 1, waiting |-> FALSE]],
                        waiters, t)
       IN  task' = after.task /\ waiters' = after.waiters
    /\ UNCHANGED <<graphVars, queueVars, passVars, discovered, graph_ops, received, updateVars,
                   idle, startVars, in_flight, wire>>

\* a task of start() begins a turn of its loop: the selection timer fires,
\* recv() yields an event
Turn(t) ==
    /\ t.name # "caller"
    /\ task[t].at = 1
    /\ ~ task[t].waiting
    /\ LET after == Run(task, waiters, t)
       IN  task' = after.task /\ waiters' = after.waiters
    /\ UNCHANGED <<graphVars, queueVars, passVars, discovered, graph_ops, received, updateVars,
                   idle, startVars, in_flight, wire>>

\* the oldest waiter of a lock is granted it once the holders allow it
Grant(t) ==
    /\ task[t].waiting
    /\ waiters[Step(t)[2]] # << >>
    /\ Head(waiters[Step(t)[2]]) = t
    /\ Allowed(task, t, Step(t)[2], Step(t)[3])
    /\ LET after == Run(Advance(task, t), [waiters EXCEPT ![Step(t)[2]] = Tail(@)], t)
       IN  task' = after.task /\ waiters' = after.waiters
    /\ UNCHANGED <<graphVars, queueVars, passVars, discovered, graph_ops, received, updateVars,
                   idle, startVars, in_flight, wire>>

\* a pause ends: the outbound request is answered or times out, the caller
\* drops the guard an accessor gave it. An Err in the registration task
\* leaves the pass or the heartbeat loop for the top of the outer loop,
\* every guard dropped on the way.
Resume(t) ==
    /\ task[t].prog # "idle"
    /\ Step(t)[1] \in {"http", "use"}
    /\ \/ LET after == Run(Advance(task, t), waiters, t)
          IN  task' = after.task /\ waiters' = after.waiters
       \/ /\ t.name = "registration"
          /\ task' = [task EXCEPT ![t].at = 1]
          /\ UNCHANGED waiters
    /\ UNCHANGED <<graphVars, queueVars, passVars, discovered, graph_ops, received, updateVars,
                   idle, startVars, in_flight, wire>>

InitLocks ==
    /\ task = [t \in TaskIds |->
                  [prog |-> IF t.name = "caller" THEN "idle" ELSE t.name,
                   at |-> 1, waiting |-> FALSE]]
    /\ waiters = [l \in Locks |-> << >>]
    /\ in_flight = None

(***************************************************************************)
(* The specifications.                                                     *)
(***************************************************************************)
NoCall == [op |-> "new", arg |-> 0, existed |-> FALSE]

\* Model::new() or Model::from_resources(bundle)
InitGraph ==
    /\ \E b \in ResourceBundles : from_resources(b)
    /\ call = NoCall
    /\ ret = "Some"
    /\ unchecked = {}

\* Node::start before any task has run (NodeBuilder::build: current_registry
\* is None; the heap is new)
InitNode ==
    /\ registries = EmptyBag
    /\ current_registry = None
    /\ popped = << >>
    /\ pc = "select"
    /\ rereg = FALSE
    /\ phase = "node"
    /\ todo = {}
    /\ posted = << >>
    /\ first_attempt = TRUE
    /\ heartbeat_url = None
    /\ response = [req |-> "none", status |-> "none"]
    /\ beaten = FALSE
    /\ reregs = 0
    /\ discovered = 0
    /\ graph_ops = 0
    /\ received = None
    /\ events = 0
    /\ outbox = [event |-> None, answer |-> "none", requests |-> << >>]
    /\ warned = FALSE
    /\ idle = FALSE
    /\ returned = None
    /\ mdns_tx = "open"
    /\ InitLocks

\* no wire function applied yet
NoWire == [op |-> "none", entity |-> None, api |-> "v1.3", out |-> None]

Init == InitGraph /\ InitNode /\ event_channel = with_event_channel /\ wire = NoWire

\* the calls of the graph's interface, and the call c
Calls ==
    ({"insert_node"} \X Nodes) \cup ({"insert_device"} \X Devices)
    \cup ({"insert_receiver"} \X Receivers) \cup ({"insert_sender"} \X Senders)
    \cup ({"insert_flow"} \X Flows)
    \cup ({"remove_node"} \X NodeIds) \cup ({"remove_device"} \X DeviceIds)
    \cup ({"remove_source"} \X SourceIds) \cup ({"remove_sender"} \X SenderIds)
    \cup ({"remove_receiver"} \X ReceiverIds) \cup ({"remove_flow"} \X FlowIds)

\* whether the identifier the call c names is a key of its kind's collection
Existed(c) ==
    CASE c[1] = "insert_node" -> contains_key(nodes, c[2].id)
      [] c[1] = "insert_device" -> contains_key(devices, c[2].id)
      [] c[1] = "insert_receiver" -> contains_key(receivers, c[2].id)
      [] c[1] = "insert_sender" -> contains_key(senders, c[2].id)
      [] c[1] = "insert_flow" -> contains_key(flows, c[2].id)
      [] c[1] = "remove_node" -> contains_key(nodes, c[2])
      [] c[1] = "remove_device" -> contains_key(devices, c[2])
      [] c[1] = "remove_source" -> contains_key(sources, c[2])
      [] c[1] = "remove_sender" -> contains_key(senders, c[2])
      [] c[1] = "remove_receiver" -> contains_key(receivers, c[2])
      [] c[1] = "remove_flow" -> contains_key(flows, c[2])

GraphCall(c) ==
    \/ c[1] = "insert_node" /\ insert_node(c[2])
    \/ c[1] = "insert_device" /\ insert_device(c[2])
    \/ c[1] = "insert_receiver" /\ insert_receiver(c[2])
    \/ c[1] = "insert_sender" /\ insert_sender(c[2])
    \/ c[1] = "insert_flow" /\ insert_flow(c[2])
    \/ c[1] = "remove_node" /\ remove_node(c[2])
    \/ c[1] = "remove_device" /\ remove_device(c[2])
    \/ c[1] = "remove_source" /\ remove_source(c[2])
    \/ c[1] = "remove_sender" /\ remove_sender(c[2])
    \/ c[1] = "remove_receiver" /\ remove_receiver(c[2])
    \/ c[1] = "remove_flow" /\ remove_flow(c[2])

\* The graph on its own: any sequence of inserts and removes.
NextGraph ==
    \E c \in Calls :
        /\ GraphCall(c)
        /\ call' = [op |-> c[1], arg |-> c[2], existed |-> Existed(c)]
        /\ UNCHANGED <<queueVars, passVars, discovered, graph_ops, received, updateVars, idle, startVars, lockVars, wire>>

SpecGraph == Init /\ [][NextGraph]_vars

(***************************************************************************)
(* The graph with an insert taken apart at its suspension point. An        *)
(* insert_device, insert_receiver, insert_sender or insert_flow first      *)
(* takes the read guards of the kinds it refers to and looks its           *)
(* references up (returning None, guards dropped, when one is missing);    *)
(* then it awaits the write lock of its own collection, the read guards    *)
(* still alive, writes the entry and returns. Other tasks' remove_<kind>   *)
(* and insert_node run in between; each needs the write lock of its kind,  *)
(* which is not granted while a read guard of that kind is alive.          *)
(***************************************************************************)
Kind(op) ==
    CASE op \in {"insert_node", "remove_node"} -> "node"
      [] op \in {"insert_device", "remove_device"} -> "device"
      [] op \in {"remove_source"} -> "source"
      [] op \in {"insert_flow", "remove_flow"} -> "flow"
      [] op \in {"insert_sender", "remove_sender"} -> "sender"
      [] op \in {"insert_receiver", "remove_receiver"} -> "receiver"

\* faulty variant: the guards are dropped once the checks are made
ReadGuardsDropped(c) == {}

\* the kinds whose read guard the insert c holds from its checks to its return
ReadGuards(c) ==
    CASE c[1] = "insert_device" -> {"node"}
      [] c[1] = "insert_receiver" -> {"device"}
      [] c[1] = "insert_sender" -> {"device", "flow"}
      [] c[1] = "insert_flow" -> {"device", "source"}

RefsPresent(c) ==
    CASE c[1] = "insert_device" -> DeviceRefsPresent(c[2])
      [] c[1] = "insert_receiver" -> ReceiverRefsPresent(c[2])
      [] c[1] = "insert_sender" -> SenderRefsPresent(c[2])
      [] c[1] = "insert_flow" -> FlowRefsPresent(c[2])

\* an insert is between its checks and its write
Checked == in_flight.some /\ ~ in_flight.val.written

\* the first half of insert_<kind>: read guards taken, references looked up
check_references(c) ==
    /\ c[1] \in {"insert_device", "insert_receiver", "insert_sender", "insert_flow"}
    /\ ~ Checked
    /\ IF RefsPresent(c)
       THEN /\ in_flight' = Some([call |-> c, guards |-> ReadGuards(c),
                                  overlapped |-> FALSE, written |-> FALSE])
            /\ UNCHANGED <<call, ret>>
       ELSE /\ in_flight' = None
            /\ call' = [op |-> c[1], arg |-> c[2], existed |-> Existed(c)]
            /\ ret' = "None"
    /\ UNCHANGED <<graph, unchecked, task, waiters, queueVars, passVars, discovered, graph_ops,
                   received, updateVars, idle, startVars, wire>>

\* the second half: the write lock of the own collection, the entry written
write_entry ==
    /\ Checked
    /\ LET c == in_flight.val.call
       IN  /\ \/ /\ c[1] = "insert_device"
                 /\ devices' = MapInsert(devices, c[2].id, c[2])
                 /\ UNCHANGED <<nodes, sources, flows, senders, receivers>>
              \/ /\ c[1] = "insert_receiver"
                 /\ receivers' = MapInsert(receivers, c[2].id, c[2])
                 /\ UNCHANGED <<nodes, devices, sources, flows, senders>>
              \/ /\ c[1] = "insert_sender"
                 /\ senders' = MapInsert(senders, c[2].id, c[2])
                 /\ UNCHANGED <<nodes, devices, sources, flows, receivers>>
              \/ /\ c[1] = "insert_flow"
                 /\ flows' = MapInsert(flows, c[2].id, c[2])
                 /\ UNCHANGED <<nodes, devices, sources, senders, receivers>>
           /\ unchecked' = Written(Kind(c[1]), c[2].id, RefsPresent(c))
           /\ call' = [op |-> c[1], arg |-> c[2], existed |-> Existed(c)]
    /\ ret' = "Some"
    /\ in_flight' = Some([in_flight.val EXCEPT !.written = TRUE])
    /\ UNCHANGED <<task, waiters, queueVars, passVars, discovered, graph_ops, received,
                   updateVars, idle, startVars, wire>>

\* another task's remove_<kind> or insert_node, whole: a single write lock
concurrent_call(c) ==
    /\ c[1] \in {"insert_node", "remove_node", "remove_device", "remove_source",
                 "remove_flow", "remove_sender", "remove_receiver"}
    /\ Checked => Kind(c[1]) \notin in_flight.val.guards
    /\ GraphCall(c)
    /\ call' = [op |-> c[1], arg |-> c[2], existed |-> Existed(c)]
    /\ in_flight' = IF Checked THEN Some([in_flight.val EXCEPT !.overlapped = TRUE])
                    ELSE in_flight
    /\ UNCHANGED <<task, waiters, queueVars, passVars, discovered, graph_ops, received,
                   updateVars, idle, startVars, wire>>


\* The candidate queue on its own: pushes of parsed candidates and pops.
QueueInputs ==
    { parse(Advert(host, pri)).val : host \in {"10.0.0.1", "10.0.0.2"}, pri \in 0..MaxPri }

QueuePush(registry) ==
    /\ BagCardinality(registries) < MaxQueue
    /\ registries' = HeapPush(registries, registry)
    /\ popped' = << >>
    /\ UNCHANGED <<graphVars, current_registry, passVars, discovered, graph_ops, received, updateVars, idle, startVars, lockVars, wire>>

QueuePop ==
    /\ BagToSet(registries) # {}
    /\ \E r \in HeapGreatest(registries) :
          /\ current_registry' = Some(r)
          /\ registries' = HeapRemove(registries, r)
          /\ popped' = Append(popped, r.pri)
    /\ UNCHANGED <<graphVars, passVars, discovered, graph_ops, received, updateVars, idle, startVars, lockVars, wire>>

NextQueue == (\E registry \in QueueInputs : QueuePush(registry)) \/ QueuePop

\* Model::new(): the graph plays no part in the queue
InitQueue ==
    /\ from_resources(CHOOSE b \in ResourceBundles : b.nodes = << >> /\ b.sources = << >> /\ b.devices = << >>)
    /\ call = NoCall
    /\ ret = "Some"
    /\ unchecked = {}
    /\ InitNode
    /\ event_channel = with_event_channel
    /\ wire = NoWire

SpecQueue == InitQueue /\ [][NextQueue]_vars

\* The node: the discovery consumer and the registration task, beside
\* other tasks' calls on the graph, one of each operation.
OtherCalls ==
    { <<"insert_node", [id |-> 2]>>,
      <<"insert_device", [id |-> 2, node_id |-> 1]>>,
      <<"insert_receiver", [id |-> 1, device_id |-> 1]>>,
      <<"insert_sender", [id |-> 1, device_id |-> 1, flow_id |-> 1]>>,
      <<"insert_flow", [id |-> 1, device_id |-> 1, source_id |-> 1]>>,
      <<"remove_node", 1>>, <<"remove_device", 1>>, <<"remove_source", 1>>,
      <<"remove_sender", 1>>, <<"remove_receiver", 1>>, <<"remove_flow", 1>> }

OtherTask ==
    /\ graph_ops < MaxGraphOps
    /\ graph_ops' = graph_ops + 1
    /\ \E c \in OtherCalls : GraphCall(c)
    /\ UNCHANGED <<call, queueVars, passVars, discovered, received, updateVars, idle, startVars, lockVars, wire>>

\* The graph with one insert at a time taken apart, beside the same calls
\* made whole by other tasks.
NextRace ==
    \/ \E c \in OtherCalls : check_references(c)
    \/ write_entry
    \/ \E c \in OtherCalls : concurrent_call(c)

SpecRace == Init /\ [][NextRace]_vars

Next ==
    \/ OtherTask
    \/ \E discovery \in DiscoveryInputs : Discover(discovery)
    \/ Select
    \/ PostResponse
    \/ GetHeartbeatUrl
    \/ HeartbeatResponse

Spec == Init /\ [][Next]_vars

\* The registration task is polled until it ends: its timers fire and every
\* request is answered or times out (reqwest's client timeout).
Registration == Select \/ PostResponse \/ GetHeartbeatUrl \/ HeartbeatResponse

FairSpec == Spec /\ WF_vars(Registration)

\* The node with its update task: the discovery consumer, the registration
\* task and the update task, on a graph of one node, device and source.
InitUpdate ==
    /\ from_resources(CHOOSE b \in ResourceBundles : b.devices # << >> /\ b.nodes # << >> /\ b.flows = << >>)
    /\ call = NoCall
    /\ ret = "Some"
    /\ unchecked = {}
    /\ InitNode
    /\ event_channel = with_event_channel
    /\ wire = NoWire

NextUpdate ==
    \/ \E event \in ResourceUpdate : Update(event)
    \/ \E discovery \in DiscoveryInputs : Discover(discovery)
    \/ Select
    \/ PostResponse
    \/ GetHeartbeatUrl
    \/ HeartbeatResponse

SpecUpdate == InitUpdate /\ [][NextUpdate]_vars

\* The discovery consumer fed with records of every shape, beside the
\* registration task.
NextDiscovery ==
    \/ \E discovery \in DiscoveryRecords : Discover(discovery)
    \/ Select
    \/ PostResponse
    \/ GetHeartbeatUrl
    \/ HeartbeatResponse

SpecDiscovery == InitUpdate /\ [][NextDiscovery]_vars

\* start() as a whole: the tasks beside the ends of the channels and of the
\* futures, for a node built with a caller's event channel.
StartEvents ==
    { [update |-> "Update", resource |-> [kind |-> "device", id |-> 1]],
      [update |-> "Added", resource |-> [kind |-> "node", id |-> 1]] }

StartDiscoveries == { Advert("10.0.0.2", 1) }

NextStart ==
    \/ \E event \in StartEvents : Update(event)
    \/ \E discovery \in StartDiscoveries : Discover(discovery)
    \/ Select
    \/ PostResponse
    \/ GetHeartbeatUrl
    \/ HeartbeatResponse
    \/ MdnsThreadPanics
    \/ SenderDropped
    \/ \E t \in Tasks : TaskCompletes(t)

SpecStart == InitUpdate /\ [][NextStart]_vars

\* select! is polled again whenever one of its futures is ready
FairStart == SpecStart /\ WF_vars(\E t \in Tasks : TaskCompletes(t))

\* start() of a node built with the builder's defaults; no event can be
\* sent, the channel having no sender.
InitDefault ==
    /\ from_resources(CHOOSE b \in ResourceBundles : b.devices # << >> /\ b.nodes # << >> /\ b.flows = << >>)
    /\ call = NoCall
    /\ ret = "Some"
    /\ unchecked = {}
    /\ InitNode
    /\ event_channel = DefaultEventChannel
    /\ wire = NoWire

NextDefault ==
    \/ \E discovery \in StartDiscoveries : Discover(discovery)
    \/ Select
    \/ PostResponse
    \/ GetHeartbeatUrl
    \/ HeartbeatResponse
    \/ MdnsThreadPanics
    \/ \E t \in Tasks : TaskCompletes(t)

SpecDefault == InitDefault /\ [][NextDefault]_vars

\* The wire functions applied to an entity of any kind and shape and to any
\* API version.
InitWire ==
    /\ from_resources(CHOOSE b \in ResourceBundles : b.devices # << >> /\ b.nodes # << >> /\ b.flows = << >>)
    /\ call = NoCall
    /\ ret = "Some"
    /\ unchecked = {}
    /\ InitNode
    /\ event_channel = with_event_channel
    /\ wire \in [op : {"input"}, entity : WireEntities, api : APIVersions, out : {None}]

NextWire == \E op \in {"to_json", "registration_request", "registry_path"} : Apply(op)

SpecWire == InitWire /\ [][NextWire]_vars

\* The tasks of start() and the callers of the graph, by their locks.
NextLocking ==
    \E t \in TaskIds :
        \/ \E name \in CallerPrograms : Call(t, name)
        \/ Turn(t)
        \/ Grant(t)
        \/ Resume(t)

SpecLocking == InitUpdate /\ [][NextLocking]_vars

(***************************************************************************)
(* The properties.                                                         *)
(***************************************************************************)
\* a step of the registration task that is not a stuttering step
DriverStepped == passVars' # passVars

\* C1: referential integrity. Every Device, Flow, Sender or Receiver the
\* graph holds through an insert was written by an insert that ran while all
\* of its required references were present (Device -> Node; Flow -> Device
\* and Source; Sender -> Device and Flow; Receiver -> Device): none of them
\* was written while a reference was absent.
C1_ReferentialIntegrity ==
    /\ \A id \in DOMAIN devices : <<"device", id>> \notin unchecked
    /\ \A id \in DOMAIN flows : <<"flow", id>> \notin unchecked
    /\ \A id \in DOMAIN senders : <<"sender", id>> \notin unchecked
    /\ \A id \in DOMAIN receivers : <<"receiver", id>> \notin unchecked

\* a sender, a receiver, a flow and a device, each written by an insert (none
\* is an entity of a bundle), the sender last
C1_Witness ==
    /\ call.op = "insert_sender" /\ ret = "Some"
    /\ 1 \in DOMAIN senders /\ senders[1].device_id = 2
    /\ 1 \in DOMAIN flows /\ flows[1].device_id = 2
    /\ 1 \in DOMAIN receivers /\ receivers[1].device_id = 1
    /\ 2 \in DOMAIN devices /\ devices[2].node_id = 2

\* whether the insert c names an entity one of whose required references is
\* absent from the graph
MissingReference(c) ==
    CASE c.op = "insert_device" -> ~ contains_key(nodes, c.arg.node_id)
      [] c.op = "insert_receiver" -> ~ contains_key(devices, c.arg.device_id)
      [] c.op = "insert_sender" ->
            ~ contains_key(devices, c.arg.device_id) \/ ~ contains_key(flows, c.arg.flow_id)
      [] c.op = "insert_flow" ->
            ~ contains_key(devices, c.arg.device_id) \/ ~ contains_key(sources, c.arg.source_id)
      [] OTHER -> FALSE

\* C2: an insert_device, insert_flow, insert_sender or insert_receiver whose
\* entity names a missing required reference returns None and leaves every
\* collection of the graph as it was.
C2_RejectedInsertChangesNothing ==
    [][ MissingReference(call') => (ret' = "None" /\ UNCHANGED graph) ]_vars

\* a sender rejected for its flow alone, on a graph that holds a sender
C2_Witness ==
    /\ call.op = "insert_sender" /\ ret = "None"
    /\ contains_key(devices, call.arg.device_id)
    /\ ~ contains_key(flows, call.arg.flow_id)
    /\ DOMAIN senders # {}

\* C3: priority selection. Each pop yields a candidate whose priority is the
\* least of those queued, so the priorities popped in a row (no push in
\* between) never decrease.
C3_PopsLeastPriority ==
    /\ \A i, j \in 1..Len(popped) : i < j => popped[i] <= popped[j]
    /\ popped # << >> =>
          \A r \in BagToSet(registries) : popped[Len(popped)] <= r.pri

\* the candidates of priority 5, 1 and 3 popped as 1, 3, 5
C3_Witness == popped = << 1, 3, 5 >> /\ BagToSet(registries) = {}

\* the place of a kind in the order Node, Device, Source, Flow, Sender, Receiver
KindRank(kind) ==
    CASE kind = "node" -> 1
      [] kind = "device" -> 2
      [] kind = "source" -> 3
      [] kind = "flow" -> 4
      [] kind = "sender" -> 5
      [] kind = "receiver" -> 6

\* C4: bulk ordering. Within one pass the first POST is the Node's and no
\* POST of a later kind precedes a POST of an earlier kind; no entity is
\* POSTed twice.
C4_BulkOrder ==
    /\ posted # << >> => posted[1].kind = "node"
    /\ \A i, j \in 1..Len(posted) :
          i < j => /\ KindRank(posted[i].kind) <= KindRank(posted[j].kind)
                   /\ posted[i] # posted[j]

\* a pass that returned Ok after POSTs of all six kinds, two of them
\* devices, on a graph another task has inserted into
C4_Witness ==
    /\ pc = "registered"
    /\ Len(posted) = 7
    /\ { posted[i].kind : i \in 1..Len(posted) } =
          {"node", "device", "source", "flow", "sender", "receiver"}
    /\ graph_ops = 1 /\ ret = "Some"

\* whether the POST in flight repeats the one before it
InFlightIsRetry ==
    Len(posted) >= 2 /\ posted[Len(posted)] = posted[Len(posted) - 1]

\* C5: idempotent re-registration. When the registry answers the POST of an
\* entity with "already exists" (409), the pass goes on with a retry POST of
\* that entity (after its DELETE); only a 409 to the retry ends the pass.
C5_ConflictIsRetried ==
    [][ (/\ pc = "post_wait" /\ DriverStepped
         /\ response'.status = "409" /\ ~ InFlightIsRetry)
        => (/\ pc' = "post_wait"
            /\ Len(posted') = Len(posted) + 1
            /\ posted'[Len(posted')] = posted[Len(posted)]) ]_vars

\* C6: heartbeat-loss recovery. A heartbeat answered 404 on the first attempt
\* after the bulk registration makes the driver call register_resources once
\* more, for the same registry and from the Node on (the call starts with
\* the unwrap of the node); when that pass returns Ok the heartbeats go on
\* to the same endpoint; a session has at most one such re-registration, and
\* a 404 after it is a loss: the driver returns to the selection.
C6_HeartbeatRecovery ==
    /\ [](reregs <= 1)
    /\ [][ (/\ pc = "heartbeat_wait" /\ DriverStepped
            /\ response'.req = "health" /\ response'.status = "404")
           => IF ~ beaten /\ reregs = 0
              THEN /\ reregs' = 1
                   /\ current_registry' = current_registry
                   /\ pc' \in {"post_wait", "panicked"}
                   /\ pc' = "post_wait" =>
                         (rereg' /\ Len(posted') = 1 /\ posted'[1].kind = "node")
              ELSE reregs >= 1 => (pc' = "select" /\ reregs' = reregs) ]_vars
    /\ [][ (pc = "post_wait" /\ rereg /\ pc' \notin {"post_wait", "select"})
           => (/\ pc' = "heartbeat_wait"
               /\ heartbeat_url' = heartbeat_url
               /\ current_registry' = current_registry) ]_vars

\* a session lost on the 404 that followed its re-registration
C6_Witness ==
    /\ pc = "select"
    /\ reregs = 1
    /\ response = [req |-> "health", status |-> "404"]

\* C7: a heartbeat answered 404 on an attempt that is not the first since
\* the (re-)registration, a successful heartbeat or a re-registration having
\* come before it, is a loss: no re-registration, back to the selection.
C7_LaterNotFoundIsLoss ==
    [][ (/\ pc = "heartbeat_wait" /\ DriverStepped
         /\ response'.req = "health" /\ response'.status = "404"
         /\ (beaten \/ reregs >= 1))
        => (pc' = "select" /\ reregs' = reregs) ]_vars

\* C8: a heartbeat that fails at transport level, or is answered with a
\* status that is neither a success nor 404, ends the heartbeat loop with no
\* re-registration; the driver is back at the selection, whose next step is
\* a pop from the candidate queue.
C8_HeartbeatFailureIsLoss ==
    /\ [][ (/\ pc = "heartbeat_wait" /\ DriverStepped
            /\ response'.req = "health"
            /\ response'.status \in {"transport", "3xx", "409", "5xx"})
           => (/\ pc' = "select"
               /\ reregs' = reregs
               /\ posted' = posted
               /\ registries' = registries) ]_vars
    /\ [][ (pc = "select" /\ DriverStepped)
           => (/\ BagCardinality(registries') = BagCardinality(registries) - 1
               /\ current_registry'.some
               /\ BagIn(current_registry'.val, registries)) ]_vars

\* a session lost on a 5xx after successful heartbeats
C8_Witness ==
    /\ pc = "select"
    /\ beaten
    /\ response = [req |-> "health", status |-> "5xx"]

\* C9: a transport error or an error status on a POST of a pass ends the
\* pass at once: nothing more is POSTed, no heartbeat endpoint is kept, the
\* driver is back at the selection, from where the only way on is a new
\* pass, which starts with the Node.
C9_PostErrorAbortsPass ==
    /\ [][ (/\ pc = "post_wait" /\ DriverStepped
            /\ response'.req = "resource"
            /\ response'.status \in {"transport", "404", "409", "5xx"})
           => (/\ pc' = "select"
               /\ posted' = posted
               /\ heartbeat_url' = None) ]_vars
    /\ [][ pc = "select" =>
              /\ pc' \in {"select", "post_wait", "panicked"}
              /\ pc' = "post_wait" =>
                    (~ rereg' /\ Len(posted') = 1 /\ posted'[1].kind = "node") ]_vars

\* a pass ended by the 5xx that answered the POST of its first device, with
\* a receiver of the graph not POSTed
C9_Witness ==
    /\ pc = "select"
    /\ response = [req |-> "resource", status |-> "5xx"]
    /\ Len(posted) = 2 /\ posted[2].kind = "device"
    /\ DOMAIN receivers # {}

\* C10: the node is never left unregistered for good. Whenever the driver is
\* not heartbeating and the queue holds a registry that accepts every POST
\* and heartbeat, the driver eventually heartbeats.
C10_EventuallyHeartbeating ==
    ((pc # "heartbeat_wait" /\ \E r \in BagToSet(registries) : AcceptsAll(r))
        ~> (pc = "heartbeat_wait"))

\* C11: dropped updates. An update event consumed while the current-registry
\* cell is empty sends no request and ends in the warning; the update task
\* sends requests only in the turn that consumes an event, and then at most
\* the requests of that one event, for that event's resource: nothing is
\* kept back and sent once a registry is active.
C11_DroppedWithoutRegistry ==
    /\ [][ (events' # events /\ ~ current_registry.some)
           => (outbox'.event.some /\ outbox'.requests = << >> /\ warned') ]_vars
    /\ [][ events' = events => outbox' = outbox ]_vars
    /\ [][ (events' # events /\ current_registry.some)
           => /\ Len(outbox'.requests) \in {1, 3}
              /\ \A i \in 1..Len(outbox'.requests) :
                    outbox'.requests[i].resource = outbox'.event.val.resource ]_vars

\* an event was dropped, later a registry became active and is heartbeated
\* to, and the update task has sent nothing
C11_Witness ==
    /\ warned
    /\ outbox.event.some /\ outbox.requests = << >>
    /\ current_registry.some
    /\ pc = "heartbeat_wait" /\ beaten

\* the methods of a sequence of requests
Methods(requests) == [i \in 1..Len(requests) |-> requests[i].method]

\* C12: update propagation. For an event consumed with a registry in the
\* cell, every request goes to that registry (under the node's API version)
\* and is about the event's resource; an Update event sends one POST, a
\* Removed event one DELETE at the resource's registry path, an Added event
\* one POST and, when that is answered "already exists", a DELETE at the
\* registry path and one retry POST.
C12_UpdatePropagation ==
    [][ (events' # events /\ current_registry.some)
        => LET event == outbox'.event.val
               requests == outbox'.requests
               posts == { i \in 1..Len(requests) : requests[i].method = "POST" }
               deletes == { i \in 1..Len(requests) : requests[i].method = "DELETE" }
           IN  /\ ~ warned'
               /\ \A i \in 1..Len(requests) :
                     /\ requests[i].url.registry = current_registry.val.url
                     /\ requests[i].url.version = api_version
                     /\ requests[i].resource = event.resource
               /\ \A i \in posts : requests[i].url.path = << "resource" >>
               /\ \A i \in deletes :
                     requests[i].url.path = << "resource" >> \o registry_path(event.resource)
               /\ event.update = "Update" => Methods(requests) = << "POST" >>
               /\ event.update = "Removed" => Methods(requests) = << "DELETE" >>
               /\ event.update = "Added" =>
                     Methods(requests) = IF outbox'.answer = "409"
                                         THEN << "POST", "DELETE", "POST" >>
                                         ELSE << "POST" >> ]_vars

\* an Added event answered "already exists" by the second registry selected
C12_Witness ==
    /\ outbox.event.some /\ outbox.event.val.update = "Added"
    /\ outbox.answer = "409"
    /\ Len(outbox.requests) = 3
    /\ events = 2
    /\ current_registry.some /\ current_registry.val.url.authority[1] = "10.0.0.2"

\* the candidates the discovery feed can put in the queue
Candidates == { parse(discovery).val : discovery \in { d \in DiscoveryInputs : parse(d).some } }

\* C13 (as stated): selection supersedes the active registry even during a
\* heartbeat session: once a candidate is queued while the driver heartbeats
\* to a registry, a selection step follows and that registry leaves the cell.
C13_SelectionSupersedes ==
    \A r \in Candidates :
        (/\ pc = "heartbeat_wait" /\ beaten
         /\ current_registry = Some(r)
         /\ BagToSet(registries) # {})
        ~> (current_registry # Some(r))

\* C13 (amended): the cell is written only by a selection step, which the
\* driver takes only from the selection (at the start, after a failed pass
\* or a lost session), never during a heartbeat session, however many
\* candidates are queued; the step leaves the popped candidate in the cell,
\* or nothing when the queue is empty, and the first request after it is
\* the POST of the Node: nothing is sent to the registry superseded.
C13_SelectionOnlyWhenSelecting ==
    /\ [][ current_registry' # current_registry
           => /\ pc = "select"
              /\ pc' \in {"select", "post_wait", "panicked"}
              /\ IF BagToSet(registries) = {}
                 THEN current_registry' = None /\ registries' = registries
                 ELSE /\ current_registry'.some
                      /\ BagIn(current_registry'.val, registries)
                      /\ BagCardinality(registries') = BagCardinality(registries) - 1
              /\ pc' = "post_wait" => (Len(posted') = 1 /\ posted'[1].kind = "node") ]_vars
    /\ [][ (pc \in {"post_wait", "registered", "heartbeat_wait"})
           => (current_registry' = current_registry) ]_vars

\* the session with the registry at 10.0.0.2 was lost and the candidate at
\* 10.0.0.1 has taken its place in the cell
C13_Witness ==
    /\ pc = "post_wait" /\ ~ rereg
    /\ response.req = "health"
    /\ current_registry.some
    /\ current_registry.val.url.authority[1] = "10.0.0.1"

\* C14: a selection tick that finds the queue empty leaves the cell empty,
\* sends nothing and leaves the driver in the selection, and so does every
\* further tick while the queue stays empty.
C14_EmptyQueueTick ==
    /\ [](idle => (pc = "select" /\ current_registry = None))
    /\ [][ (/\ pc = "select" /\ BagToSet(registries) = {}
            /\ <<idle, current_registry, passVars>>' # <<idle, current_registry, passVars>>)
           => (/\ idle' /\ current_registry' = None
               /\ passVars' = passVars
               /\ registries' = registries) ]_vars
    /\ [][ (idle /\ BagToSet(registries) = {})
           => (idle' /\ pc' = "select" /\ posted' = posted /\ response' = response) ]_vars

\* a tick that found the queue empty after a lost session: the registry of
\* that session has left the cell
C14_Witness ==
    /\ idle
    /\ response.req = "health"
    /\ current_registry = None
    /\ BagToSet(registries) = {}

\* the collection an insert or a remove works on
CollectionOf(op) ==
    CASE op \in {"insert_node", "remove_node"} -> nodes
      [] op \in {"insert_device", "remove_device"} -> devices
      [] op \in {"remove_source"} -> sources
      [] op \in {"insert_flow", "remove_flow"} -> flows
      [] op \in {"insert_sender", "remove_sender"} -> senders
      [] op \in {"insert_receiver", "remove_receiver"} -> receivers

\* the collections it does not work on
OthersOf(op) ==
    CASE op \in {"insert_node", "remove_node"} -> <<devices, sources, flows, senders, receivers>>
      [] op \in {"insert_device", "remove_device"} -> <<nodes, sources, flows, senders, receivers>>
      [] op \in {"remove_source"} -> <<nodes, devices, flows, senders, receivers>>
      [] op \in {"insert_flow", "remove_flow"} -> <<nodes, devices, sources, senders, receivers>>
      [] op \in {"insert_sender", "remove_sender"} -> <<nodes, devices, sources, flows, receivers>>
      [] op \in {"insert_receiver", "remove_receiver"} -> <<nodes, devices, sources, flows, senders>>

\* the same after the step
CollectionAfter(op) ==
    CASE op \in {"insert_node", "remove_node"} -> nodes'
      [] op \in {"insert_device", "remove_device"} -> devices'
      [] op \in {"remove_source"} -> sources'
      [] op \in {"insert_flow", "remove_flow"} -> flows'
      [] op \in {"insert_sender", "remove_sender"} -> senders'
      [] op \in {"insert_receiver", "remove_receiver"} -> receivers'

OthersAfter(op) ==
    CASE op \in {"insert_node", "remove_node"} -> <<devices', sources', flows', senders', receivers'>>
      [] op \in {"insert_device", "remove_device"} -> <<nodes', sources', flows', senders', receivers'>>
      [] op \in {"remove_source"} -> <<nodes', devices', flows', senders', receivers'>>
      [] op \in {"insert_flow", "remove_flow"} -> <<nodes', devices', sources', senders', receivers'>>
      [] op \in {"insert_sender", "remove_sender"} -> <<nodes', devices', sources', flows', receivers'>>
      [] op \in {"insert_receiver", "remove_receiver"} -> <<nodes', devices', sources', flows', senders'>>

InsertOps == {"insert_node", "insert_device", "insert_flow", "insert_sender", "insert_receiver"}

RemoveOps == {"remove_node", "remove_device", "remove_source", "remove_flow",
              "remove_sender", "remove_receiver"}

\* C15: an insert of an entity whose identifier is already a key of its
\* kind's collection, its references being present, returns Some and
\* replaces the entity stored: the collection maps the identifier to the
\* new entity, every other entry is as before and the count is unchanged.
C15_InsertOverwrites ==
    [][ (/\ call'.op \in InsertOps
         /\ ~ MissingReference(call')
         /\ call'.arg.id \in DOMAIN CollectionOf(call'.op))
        => LET before == CollectionOf(call'.op)
               after == CollectionAfter(call'.op)
               id == call'.arg.id
           IN  /\ ret' = "Some"
               /\ DOMAIN after = DOMAIN before
               /\ Cardinality(DOMAIN after) = Cardinality(DOMAIN before)
               /\ after[id] = call'.arg
               /\ \A k \in DOMAIN before \ {id} : after[k] = before[k] ]_vars

\* device 1 was stored and an insert has put a device 1 of node 2 in its place
C15_Witness ==
    /\ call.op = "insert_device" /\ call.existed /\ ret = "Some"
    /\ call.arg = [id |-> 1, node_id |-> 2]
    /\ devices[1] = call.arg
    /\ DOMAIN devices = {1, 2}
    /\ DOMAIN flows # {}

\* C16: no cascading delete. A remove changes its own kind's collection
\* only: the five others are as before, whatever references the entity.
C16_NoCascadingDelete ==
    [][ (call'.op \in RemoveOps) => (OthersAfter(call'.op) = OthersOf(call'.op)) ]_vars

\* a node was removed and a device of that node is still in the graph
C16_Witness ==
    /\ call.op = "remove_node" /\ ret = "Some"
    /\ ~ contains_key(nodes, call.arg)
    /\ \E d \in DOMAIN devices : devices[d].node_id = call.arg

\* C17: a remove returns Some exactly when the identifier is a key of its
\* kind's collection, and then removes that entry and no other; otherwise it
\* returns None and the graph is as before.
C17_RemoveResult ==
    [][ (call'.op \in RemoveOps)
        => LET before == CollectionOf(call'.op)
               after == CollectionAfter(call'.op)
               id == call'.arg
           IN  /\ (ret' = "Some") <=> (id \in DOMAIN before)
               /\ (ret' = "None") <=> (id \notin DOMAIN before)
               /\ DOMAIN after = DOMAIN before \ {id}
               /\ \A k \in DOMAIN after : after[k] = before[k]
               /\ id \notin DOMAIN before => UNCHANGED graph ]_vars

\* a device that was already removed is removed once more: None, and the
\* other device is still there
C17_Witness ==
    /\ call.op = "remove_device" /\ ~ call.existed /\ ret = "None"
    /\ DOMAIN devices = {2} /\ call.arg = 1
    /\ \E s \in DOMAIN sources : sources[s].device_id = 1

\* the step consumes a discovery record
Discovered == discovered' = discovered + 1

\* whether the record carries a TXT map with the four keys
CarriesAllKeys(d) ==
    /\ d.txt.some
    /\ \A key \in {"api_proto", "api_ver", "api_auth", "pri"} : key \in DOMAIN d.txt.val

\* C18: a discovery record with no TXT map, or whose TXT map lacks one of
\* api_proto, api_ver, api_auth and pri, is discarded: the candidate queue is
\* as before; a record that enlarges the queue carries all four keys.
C18_AllFourKeysRequired ==
    /\ [][ (Discovered /\ ~ CarriesAllKeys(received'.val))
           => (registries' = registries /\ current_registry' = current_registry) ]_vars
    /\ [][ (Discovered /\ registries' # registries)
           => (/\ CarriesAllKeys(received'.val)
               /\ BagCardinality(registries') = BagCardinality(registries) + 1) ]_vars

\* a record without api_auth was discarded after another had been queued
C18_Witness ==
    /\ received.some /\ received.val.txt.some
    /\ DOMAIN received.val.txt.val = {"api_proto", "api_ver", "pri"}
    /\ discovered = 2
    /\ BagCardinality(registries) = 1

\* whether a record that carries the four keys is malformed: an address that
\* is no IP address, a version entry that is no version, an api_auth that is
\* no boolean or a pri that is no 8-bit unsigned integer
Malformed(d) ==
    /\ CarriesAllKeys(d)
    /\ \/ ~ IpAddrFromStr(d.address).some
       \/ \E i \in 1..Len(d.txt.val["api_ver"]) :
             ~ APIVersionFromStr(d.txt.val["api_ver"][i]).some
       \/ ~ ParseBool(d.txt.val["api_auth"]).some
       \/ ~ ParseU8(d.txt.val["pri"]).some

\* C19: a malformed discovery record is discarded as a whole: it yields no
\* candidate and the queue is as before.
C19_MalformedRecordDiscarded ==
    [][ (Discovered /\ Malformed(received'.val)) => (registries' = registries) ]_vars

\* whether the version list of a candidate holds the node's API version
Compatible(registry) ==
    \E i \in 1..Len(registry.api_ver) : registry.api_ver[i] = api_version

\* C20: a candidate whose version list does not hold the node's configured
\* API version is never the active registry: it is never in the cell, so no
\* POST of a pass and no heartbeat goes to it.
C20_IncompatibleNeverSelected ==
    current_registry.some => Compatible(current_registry.val)

C30_DefaultUpdateTaskStays == returned # Some("update")

\* C23: to_json and registration_request of any entity, applied to an API
\* version other than v1.0 and v1.3, panic with "Unsupported API" and return
\* no payload.
C23_UnsupportedVersionPanics ==
    (wire.op \in {"to_json", "registration_request"} /\ wire.api \notin {"v1.0", "v1.3"})
        => (wire.out.panic /\ wire.out.message = "Unsupported API")

\* C23 witness: the registration request of a video flow asked for v1.2
C23_Witness ==
    /\ wire.op = "registration_request"
    /\ wire.api = "v1.2"
    /\ wire.entity.kind = "flow" /\ wire.entity.format = "Video"
    /\ wire.out.panic

\* C29: registry_path() of every kind is the relative path <kind-plural>/<id>
\* with no leading slash.
C29_UniformRegistryPath ==
    wire.op = "registry_path"
        => (/\ wire.out[2] = wire.entity.id
            /\ wire.out[1] = CASE wire.entity.kind = "node" -> "nodes/"
                               [] wire.entity.kind = "device" -> "devices/"
                               [] wire.entity.kind = "source" -> "sources/"
                               [] wire.entity.kind = "flow" -> "flows/"
                               [] wire.entity.kind = "sender" -> "senders/"
                               [] wire.entity.kind = "receiver" -> "receivers/")

\* C27: within a session every outbound call has the base
\* <registry-url>/<api-version>/ of the node's configured version: the
\* heartbeats of the session go to the version segment its bulk POSTs went
\* to, which is the configured one, and so do the update requests.
C27_OneBasePerSession ==
    /\ (pc = "heartbeat_wait")
          => (/\ heartbeat_url.val.version = api_version
              /\ resource_url(heartbeat_url.val.registry).version
                    = heartbeat_url.val.version)
    /\ \A i \in DOMAIN outbox.requests : outbox.requests[i].url.version = api_version

PostedInPass(e) == \E i \in DOMAIN posted : posted[i] = e

\* a pass is in progress, the for loop of the entity's kind is over, and the
\* entity is in the graph without having been POSTed: it was inserted while
\* the pass was running, after the read guard of its kind was dropped
SkippedByPass(e) ==
    /\ pc = "post_wait"
    /\ KindRank(phase) > KindRank(e.kind)
    /\ e.id \in Guarded(e.kind)
    /\ ~ PostedInPass(e)

\* C26: an entity inserted during a bulk pass and not POSTed by it is
\* eventually POSTed by a registration pass, unless the session ends first
\* (the registration task is back at the selection tick, or has panicked).
C26_EventualRepair ==
    \A e \in { [kind |-> "device", id |-> 2], [kind |-> "flow", id |-> 1],
               [kind |-> "sender", id |-> 1] } :
        SkippedByPass(e) ~> (PostedInPass(e) \/ pc \in {"select", "panicked"})

\* the task t cannot go on before the task u has: t waits for a lock that u
\* holds in a mode that excludes t's, or that u asked for before t
WaitsFor(t, u) ==
    /\ t # u
    /\ task[t].waiting
    /\ \/ \E h \in HeldIn(task, u) :
             /\ h.lock = Step(t)[2]
             /\ ~ (Step(t)[3] = "read" /\ h.mode = "read")
       \/ /\ task[u].waiting
          /\ Step(u)[2] = Step(t)[2]
          /\ \E i, j \in DOMAIN waiters[Step(t)[2]] :
                /\ i < j
                /\ waiters[Step(t)[2]][i] = u
                /\ waiters[Step(t)[2]][j] = t

\* C24: every task holds at most one lock at a time and none while it
\* awaits an outbound HTTP call.
C24_LockDiscipline ==
    \A t \in TaskIds :
        task[t].prog # "idle"
            => (/\ Cardinality(HeldIn(task, t)) <= 1
                /\ Step(t)[1] = "http" => HeldIn(task, t) = {})

C31_NoUpdateToFailedRegistry ==
    /\ [][ (pc' = "select" /\ pc \in {"post_wait", "heartbeat_wait"})
           => current_registry' = None ]_vars
    /\ [][ (events' = events + 1 /\ pc = "select")
           => (outbox'.requests = << >> /\ warned') ]_vars

\* C32: the node identifier of the session's heartbeat endpoint is that of
\* the Node its bulk pass POSTed; stated for the steps that build the
\* endpoint on a graph that holds one Node only, where the order of
\* iteration plays no part in what the step reads.
C32_HeartbeatNodeIsPostedNode ==
    [][ (pc = "registered" /\ pc' = "heartbeat_wait" /\ Cardinality(DOMAIN nodes) = 1)
        => heartbeat_url'.val.node_id = posted[1].id ]_vars

\* C33: the registration task survives every graph content: it never ends
\* in a panic.
C33_DriverSurvivesEmptyGraph == pc # "panicked"

\* C34: for v1.0 and v1.3, to_json and registration_request of every entity
\* return a payload and do not panic.
C34_PayloadTotalOnSupported ==
    (wire.op \in {"to_json", "registration_request"} /\ wire.api \in {"v1.0", "v1.3"})
        => ~ wire.out.panic


\* C35: check and insert are one step as far as the references go. Between
\* the reference checks of an insert and its write no removal of a kind the
\* insert refers to takes effect: every reference stays present while the
\* insert is in flight, is present at the instant of the write, and the
\* entry written is none that was written with a reference absent.
C35_CheckThenInsertAtomic ==
    /\ [](Checked => RefsPresent(in_flight.val.call))
    /\ [][ (Checked /\ ~ Checked')
           => /\ RefsPresent(in_flight.val.call)
              /\ <<Kind(in_flight.val.call[1]), in_flight.val.call[2].id>> \notin unchecked' ]_vars

\* a device written after its checks while removals of other tasks ran in
\* between, the node it refers to still there
C35_Witness ==
    /\ in_flight.some /\ in_flight.val.written /\ in_flight.val.overlapped
    /\ in_flight.val.call[1] = "insert_device"
    /\ call.op = "insert_device" /\ ret = "Some"
    /\ contains_key(nodes, call.arg.node_id)
    /\ devices[call.arg.id] = call.arg


\* C36: each queued candidate is consumed at most once. A step that begins
\* a session (the selection tick that found the queue non-empty) removes
\* exactly one candidate, the one it writes to the cell; a selection tick
\* passes without a session only when the queue is empty; and no step other than the
\* discovery consumer's adds a copy of any candidate to the queue, so a
\* registry whose session failed is selected again only from a new
\* discovery record, and the sessions begun are no more than the records
\* accepted. The queue and the cell together never hold more than the
\* records consumed.
C36_ConsumedAtMostOnce ==
    /\ [][ (pc = "select" /\ pc' \in {"post_wait", "panicked"})
           => /\ current_registry'.some
              /\ registries = registries' (+) SetToBag({current_registry'.val})
              /\ BagCardinality(registries') = BagCardinality(registries) - 1 ]_vars
    /\ [][ (pc = "select" /\ idle' /\ ~ idle) => BagToSet(registries) = {} ]_vars
    /\ [][ ~ Discovered
           => \A r \in BagToSet(registries') :
                 CopiesIn(r, registries') <= CopiesIn(r, registries) ]_vars
    /\ [](BagCardinality(registries) + (IF current_registry.some THEN 1 ELSE 0) <= discovered)

\* the tick after a failed pass found the queue empty: the registry that
\* failed, the only one discovered, is not selected again
C36_Witness ==
    /\ idle /\ pc = "select"
    /\ response = [req |-> "resource", status |-> "5xx"]
    /\ current_registry = None
    /\ BagToSet(registries) = {}
    /\ discovered = 1


\* C37: no heartbeat without a successful pass against the same registry.
\* While a pass or the heartbeat loop runs the cell holds a registry and
\* keeps holding the same one; the heartbeat endpoint is that registry's;
\* the heartbeat loop is entered only from a pass whose last POST was
\* answered with success (straight after the endpoint is built for a first
\* pass, or on the return of a re-registration pass), and a heartbeat is
\* answered only inside the loop.
C37_HeartbeatAfterSuccessfulPass ==
    /\ [](pc \in {"post_wait", "registered", "heartbeat_wait"} => current_registry.some)
    /\ [](pc = "heartbeat_wait"
            => (heartbeat_url.some /\ heartbeat_url.val.registry = current_registry.val))
    /\ [][ (pc \in {"post_wait", "registered", "heartbeat_wait"} /\ pc' # "select")
           => current_registry' = current_registry ]_vars
    /\ [][ (pc # "registered" /\ pc' = "registered")
           => (/\ pc = "post_wait" /\ ~ rereg
               /\ response' = [req |-> "resource", status |-> response'.status]
               /\ response'.status \in {"2xx", "3xx"}) ]_vars
    /\ [][ (pc # "heartbeat_wait" /\ pc' = "heartbeat_wait")
           => \/ pc = "registered"
              \/ (/\ pc = "post_wait" /\ rereg
                  /\ response'.req = "resource"
                  /\ response'.status \in {"2xx", "3xx"}
                  /\ heartbeat_url' = heartbeat_url) ]_vars
    /\ [][ (response' # response /\ response'.req = "health") => pc = "heartbeat_wait" ]_vars

\* a session that heartbeats with success after a re-registration pass over
\* a node and a device
C37_Witness ==
    /\ pc = "heartbeat_wait" /\ beaten /\ reregs = 1
    /\ current_registry.some
    /\ heartbeat_url.val.registry = current_registry.val
    /\ Len(posted) >= 2
    /\ response = [req |-> "health", status |-> "2xx"]


\* C38: only the registration task writes the cell of the current registry.
\* A step of the update task (an event consumed) leaves the cell and the
\* queue as they are; a step of the discovery consumer leaves the cell as it
\* is and takes no candidate from the queue; every step that changes the
\* cell is a selection tick of the registration task.
C38_OnlyDriverWritesCell ==
    /\ [][ events' # events
           => (current_registry' = current_registry /\ registries' = registries) ]_vars
    /\ [][ Discovered
           => /\ current_registry' = current_registry
              /\ \A r \in BagToSet(registries) :
                    CopiesIn(r, registries') >= CopiesIn(r, registries) ]_vars
    /\ [][ current_registry' # current_registry
           => (pc = "select" /\ events' = events /\ discovered' = discovered) ]_vars

\* an update event sent to the registry of the cell and a second discovery
\* record queued behind the session, the cell still holding the first
C38_Witness ==
    /\ events >= 1 /\ outbox.requests # << >>
    /\ discovered = 2
    /\ BagCardinality(registries) = 1
    /\ current_registry.some
    /\ pc = "heartbeat_wait"


\* C39: a graph built from a resource bundle holds no Device, Flow, Sender
\* or Receiver whose required reference is absent: in the graph as built
\* (before any call on it) every Device's node, every Flow's device and
\* source, every Sender's device and flow and every Receiver's device is
\* there.
C39_BundleReferencesEnforced ==
    call = NoCall
        => /\ \A id \in DOMAIN devices : contains_key(nodes, devices[id].node_id)
           /\ \A id \in DOMAIN flows :
                 /\ contains_key(devices, flows[id].device_id)
                 /\ contains_key(sources, flows[id].source_id)
           /\ \A id \in DOMAIN senders :
                 /\ contains_key(devices, senders[id].device_id)
                 /\ contains_key(flows, senders[id].flow_id)
           /\ \A id \in DOMAIN receivers : contains_key(devices, receivers[id].device_id)


\* C40: the frame of a successful insert. An insert that returns Some,
\* whether its identifier was a key before or not, changes its own kind's
\* collection only, and there only the entry at the identifier of its
\* entity: the keys are those of before and that identifier, the entity
\* stored at it is the entity given, field for field, every other entry and
\* each of the five other collections is as before.
C40_InsertFrame ==
    [][ (call'.op \in InsertOps /\ ret' = "Some")
        => LET before == CollectionOf(call'.op)
               after == CollectionAfter(call'.op)
               e == call'.arg
           IN  /\ DOMAIN after = DOMAIN before \cup {e.id}
               /\ after[e.id] = e
               /\ \A k \in DOMAIN before \ {e.id} : after[k] = before[k]
               /\ OthersAfter(call'.op) = OthersOf(call'.op) ]_vars

\* a sender stored under an identifier that was no key, in a graph that
\* holds two devices and a receiver
C40_Witness ==
    /\ call.op = "insert_sender" /\ ~ call.existed /\ ret = "Some"
    /\ senders[call.arg.id] = call.arg
    /\ DOMAIN devices = {1, 2}
    /\ DOMAIN receivers # {}
    /\ DOMAIN flows # {}

=============================================================================
